---------------------------- MODULE Spec2Model ----------------------------
(***************************************************************************)
(* A model of the engine's scene layer (Scene, Camera, Renderer, Mesh),    *)
(* of the linear algebra it rests on (Vector3, Quaternion, Matrix4,        *)
(* Transform) and of the engine's main loop (Engine, Input, Window).       *)
(*                                                                         *)
(* f32 values are modelled as exact rationals <<numerator, denominator>>   *)
(* in lowest terms with a positive denominator.  The inputs the actions    *)
(* draw are chosen so that every square root taken is the root of a        *)
(* perfect square and no division is by zero.                              *)
(***************************************************************************)
EXTENDS Integers, Sequences, FiniteSets, TLC

(***************************************************************************)
(* f32 arithmetic (Core/Base.h, Math/Math.h)                               *)
(***************************************************************************)
IAbs(a) == IF a < 0 THEN -a ELSE a

RECURSIVE GCD(_, _)
GCD(a, b) == IF b = 0 THEN a ELSE GCD(b, a % b)

\* The f32 n/d, in lowest terms.
F32(n, d) ==
    IF n = 0 THEN <<0, 1>>
    ELSE IF d = 1 THEN <<n, 1>>
    ELSE LET g == GCD(IAbs(n), IAbs(d))
             s == IF d < 0 THEN -1 ELSE 1
         IN  <<(s * n) \div g, (s * d) \div g>>

F(n) == <<n, 1>>

FAdd(a, b) ==
    IF a[1] = 0 THEN b
    ELSE IF b[1] = 0 THEN a
    ELSE F32(a[1] * b[2] + b[1] * a[2], a[2] * b[2])
FSub(a, b) ==
    IF b[1] = 0 THEN a
    ELSE F32(a[1] * b[2] - b[1] * a[2], a[2] * b[2])
FMul(a, b) ==
    IF a[1] = 0 \/ b[1] = 0 THEN <<0, 1>>
    ELSE F32(a[1] * b[1], a[2] * b[2])
FDiv(a, b) == F32(a[1] * b[2], a[2] * b[1])
FNeg(a) == <<-a[1], a[2]>>
FLt(a, b) == a[1] * b[2] < b[1] * a[2]
FLe(a, b) == a[1] * b[2] <= b[1] * a[2]
FGt(a, b) == FLt(b, a)
FGe(a, b) == FLe(b, a)
FAbs(a) == <<IAbs(a[1]), a[2]>>

\* Math::EPSILON = 1.0e-6f
EPSILON == F32(1, 1000000)

\* Math::PI = 3.14159265358979323846f, as the rational 355/113 = 3.1415929
PI == F32(355, 113)

\* Math::DEG2RAD = PI / 180.0f
DEG2RAD == FDiv(PI, F(180))

ToRadians(degrees) == FMul(degrees, DEG2RAD)

\* A faulty NearZero that lets a value of exactly EPSILON through.
NearZero_Strict(value) == FLt(FAbs(value), EPSILON)

NearZero(value) == FLe(FAbs(value), EPSILON)

\* std::sqrt on the squares of rationals, where it is exact.
ISqrt(k) == CHOOSE r \in 0..k : r * r = k
Sqrt(v) == <<ISqrt(v[1]), ISqrt(v[2])>>

\* std::tan, tabulated at the half-angles the model uses: PI/4 (fov = PI/2),
\* PI/6 (fov = 60 degrees; 0.57735 as 56/97) and 22.5 rad (fov = 45;
\* 0.55785 as 53/95).
Tan(angleRad) ==
    CASE angleRad = FMul(FDiv(PI, F(2)), F32(1, 2)) -> F(1)
      [] angleRad = FMul(ToRadians(F(60)), F32(1, 2)) -> F32(56, 97)
      [] angleRad = FMul(F(45), F32(1, 2)) -> F32(53, 95)

\* The angles whose sine and cosine are rational: 0, PI/2, PI and their
\* negatives, and the angles of the triangles 3-4-5 (0.6435 rad) and
\* 5-12-13 (1.176 rad).
Angle345 == F32(1287, 2000)
Angle51213 == F32(147, 125)

\* std::sin and std::cos, tabulated at those angles.
Sin(angleRad) ==
    CASE angleRad = F(0) -> F(0)
      [] angleRad = FDiv(PI, F(2)) -> F(1)
      [] angleRad = FNeg(FDiv(PI, F(2))) -> F(-1)
      [] angleRad = PI -> F(0)
      [] angleRad = Angle345 -> F32(3, 5)
      [] angleRad = Angle51213 -> F32(12, 13)
      [] angleRad = FNeg(Angle51213) -> F32(-12, 13)

Cos(angleRad) ==
    CASE angleRad = F(0) -> F(1)
      [] angleRad = FDiv(PI, F(2)) -> F(0)
      [] angleRad = FNeg(FDiv(PI, F(2))) -> F(0)
      [] angleRad = PI -> F(-1)
      [] angleRad = Angle345 -> F32(4, 5)
      [] angleRad = Angle51213 -> F32(5, 13)
      [] angleRad = FNeg(Angle51213) -> F32(5, 13)

(***************************************************************************)
(* Vector3 (Math/Vector3.h)                                                *)
(***************************************************************************)
Vector3(x, y, z) == [x |-> x, y |-> y, z |-> z]
V3(x, y, z) == Vector3(F(x), F(y), F(z))

Vector3_Zero == V3(0, 0, 0)
Vector3_One == V3(1, 1, 1)
Vector3_Up == V3(0, 1, 0)
Vector3_Right == V3(1, 0, 0)
Vector3_Forward == V3(0, 0, -1)

V3Add(a, b) == Vector3(FAdd(a.x, b.x), FAdd(a.y, b.y), FAdd(a.z, b.z))
V3Sub(a, b) == Vector3(FSub(a.x, b.x), FSub(a.y, b.y), FSub(a.z, b.z))
V3Mul(a, b) == Vector3(FMul(a.x, b.x), FMul(a.y, b.y), FMul(a.z, b.z))
V3DivScalar(a, s) == Vector3(FDiv(a.x, s), FDiv(a.y, s), FDiv(a.z, s))

V3LengthSquared(a) == FAdd(FAdd(FMul(a.x, a.x), FMul(a.y, a.y)), FMul(a.z, a.z))
\* Math::Sqrt of the sum of the squares of the components c. The squares are
\* taken after dividing by the largest component, which leaves the value as
\* it is and keeps the squares of components near EPSILON in range.
Hypot(c) ==
    LET abs == {FAbs(c[i]) : i \in DOMAIN c}
        s == CHOOSE x \in abs : \A y \in abs : FLe(y, x)
        Sum[i \in 0..Len(c)] ==
            IF i = 0 THEN F(0)
            ELSE FAdd(Sum[i - 1], FMul(FDiv(c[i], s), FDiv(c[i], s)))
    IN  IF s = F(0) THEN F(0) ELSE FMul(s, Sqrt(Sum[Len(c)]))

V3Length(a) == Hypot(<<a.x, a.y, a.z>>)

V3Normalized(a) ==
    LET len == V3Length(a)
    IN  IF NearZero(len) THEN a ELSE V3DivScalar(a, len)

Dot(a, b) == FAdd(FAdd(FMul(a.x, b.x), FMul(a.y, b.y)), FMul(a.z, b.z))

Cross(a, b) ==
    Vector3(FSub(FMul(a.y, b.z), FMul(a.z, b.y)),
            FSub(FMul(a.z, b.x), FMul(a.x, b.z)),
            FSub(FMul(a.x, b.y), FMul(a.y, b.x)))

(***************************************************************************)
(* Matrix4 (Math/Matrix4.h): m[16], with mm[i][j] = m[i * 4 + j]           *)
(***************************************************************************)
Matrix4_Identity == [i \in 0..15 |-> IF i \in {0, 5, 10, 15} THEN F(1) ELSE F(0)]

\* Matrix4::operator*(const Matrix4&)
M4Mul(a, b) ==
    [n \in 0..15 |->
        LET i == n \div 4
            j == n % 4
        IN  FAdd(FAdd(FAdd(FAdd(F(0), FMul(a[i * 4], b[j])),
                           FMul(a[i * 4 + 1], b[4 + j])),
                      FMul(a[i * 4 + 2], b[8 + j])),
                 FMul(a[i * 4 + 3], b[12 + j]))]

Translation(t) ==
    [Matrix4_Identity EXCEPT ![3] = t.x, ![7] = t.y, ![11] = t.z]

Scale(s) ==
    [Matrix4_Identity EXCEPT ![0] = s.x, ![5] = s.y, ![10] = s.z]

Orthographic(left, right, bottom, top, near, far) ==
    [Matrix4_Identity EXCEPT
        ![0] = FDiv(F(2), FSub(right, left)),
        ![5] = FDiv(F(2), FSub(top, bottom)),
        ![10] = FDiv(F(-2), FSub(far, near)),
        ![3] = FDiv(FNeg(FAdd(right, left)), FSub(right, left)),
        ![7] = FDiv(FNeg(FAdd(top, bottom)), FSub(top, bottom)),
        ![11] = FDiv(FNeg(FAdd(far, near)), FSub(far, near))]

Perspective(fov, aspect, near, far) ==
    LET tanHalfFov == Tan(FMul(fov, F32(1, 2)))
    IN  [Matrix4_Identity EXCEPT
            ![0] = FDiv(F(1), FMul(aspect, tanHalfFov)),
            ![5] = FDiv(F(1), tanHalfFov),
            ![10] = FDiv(FNeg(FAdd(far, near)), FSub(far, near)),
            ![11] = FDiv(FNeg(FMul(FMul(F(2), far), near)), FSub(far, near)),
            ![14] = F(-1),
            ![15] = F(0)]

Matrix4_LookAt(eye, target, up) ==
    LET z == V3Normalized(V3Sub(eye, target))
        x == V3Normalized(Cross(up, z))
        y == Cross(z, x)
    IN  [Matrix4_Identity EXCEPT
            ![0] = x.x, ![1] = x.y, ![2] = x.z,
            ![4] = y.x, ![5] = y.y, ![6] = y.z,
            ![8] = z.x, ![9] = z.y, ![10] = z.z,
            ![3] = FNeg(Dot(x, eye)),
            ![7] = FNeg(Dot(y, eye)),
            ![11] = FNeg(Dot(z, eye))]

(***************************************************************************)
(* Quaternion (Math/Quaternion.h)                                          *)
(***************************************************************************)
Quaternion(x, y, z, w) == [x |-> x, y |-> y, z |-> z, w |-> w]
Q(x, y, z, w) == Quaternion(F(x), F(y), F(z), F(w))

Quaternion_Identity == Q(0, 0, 0, 1)

\* Quaternion::operator*(const Quaternion&)
QMul(a, b) ==
    Quaternion(
        FAdd(FSub(FAdd(FMul(a.w, b.x), FMul(a.x, b.w)), FMul(a.z, b.y)), FMul(a.y, b.z)),
        FAdd(FAdd(FSub(FMul(a.w, b.y), FMul(a.x, b.z)), FMul(a.y, b.w)), FMul(a.z, b.x)),
        FAdd(FSub(FAdd(FMul(a.w, b.z), FMul(a.x, b.y)), FMul(a.y, b.x)), FMul(a.z, b.w)),
        FSub(FSub(FSub(FMul(a.w, b.w), FMul(a.x, b.x)), FMul(a.y, b.y)), FMul(a.z, b.z)))

Conjugate(q) == Quaternion(FNeg(q.x), FNeg(q.y), FNeg(q.z), q.w)

\* Quaternion::operator*(const Vector3&)
QRotate(q, vec) ==
    LET p == Quaternion(vec.x, vec.y, vec.z, F(0))
        result == QMul(QMul(q, p), Conjugate(q))
    IN  Vector3(result.x, result.y, result.z)

QLengthSquared(q) ==
    FAdd(FAdd(FAdd(FMul(q.x, q.x), FMul(q.y, q.y)), FMul(q.z, q.z)), FMul(q.w, q.w))

QNormalized(q) ==
    LET len == Sqrt(QLengthSquared(q))
    IN  IF FGt(len, EPSILON)
        THEN LET invLen == FDiv(F(1), len)
             IN  Quaternion(FMul(q.x, invLen), FMul(q.y, invLen),
                            FMul(q.z, invLen), FMul(q.w, invLen))
        ELSE q

\* Quaternion::ToMatrix
QToMatrix(q) ==
    LET xx == FMul(q.x, q.x)
        yy == FMul(q.y, q.y)
        zz == FMul(q.z, q.z)
        xy == FMul(q.x, q.y)
        xz == FMul(q.x, q.z)
        xw == FMul(q.x, q.w)
        yz == FMul(q.y, q.z)
        yw == FMul(q.y, q.w)
        zw == FMul(q.z, q.w)
    IN  [Matrix4_Identity EXCEPT
            ![0] = FSub(F(1), FMul(F(2), FAdd(yy, zz))),
            ![1] = FMul(F(2), FSub(xy, zw)),
            ![2] = FMul(F(2), FAdd(xz, yw)),
            ![4] = FMul(F(2), FAdd(xy, zw)),
            ![5] = FSub(F(1), FMul(F(2), FAdd(xx, zz))),
            ![6] = FMul(F(2), FSub(yz, xw)),
            ![8] = FMul(F(2), FSub(xz, yw)),
            ![9] = FMul(F(2), FAdd(yz, xw)),
            ![10] = FSub(F(1), FMul(F(2), FAdd(xx, yy)))]

\* A faulty accessor that reads the array by columns.
At_ByColumns(matrix, row, col) == matrix[col * 4 + row]

\* Matrix4::operator()(row, col)
At(matrix, row, col) == matrix[row * 4 + col]

FromRotationMatrix(matrix) ==
    LET m00 == At(matrix, 0, 0)
        m11 == At(matrix, 1, 1)
        m22 == At(matrix, 2, 2)
        trace == FAdd(FAdd(m00, m11), m22)
        result ==
            IF FGt(trace, F(0))
            THEN LET s == FDiv(F32(1, 2), Sqrt(FAdd(trace, F(1))))
                 IN  Quaternion(
                        FMul(FSub(At(matrix, 2, 1), At(matrix, 1, 2)), s),
                        FMul(FSub(At(matrix, 0, 2), At(matrix, 2, 0)), s),
                        FMul(FSub(At(matrix, 1, 0), At(matrix, 0, 1)), s),
                        FDiv(F32(1, 4), s))
            ELSE IF FGt(m00, m11) /\ FGt(m00, m22)
            THEN LET s == FMul(F(2), Sqrt(FSub(FSub(FAdd(F(1), m00), m11), m22)))
                 IN  Quaternion(
                        FMul(F32(1, 4), s),
                        FDiv(FAdd(At(matrix, 0, 1), At(matrix, 1, 0)), s),
                        FDiv(FAdd(At(matrix, 0, 2), At(matrix, 2, 0)), s),
                        FDiv(FSub(At(matrix, 2, 1), At(matrix, 1, 2)), s))
            ELSE IF FGt(m11, m22)
            THEN LET s == FMul(F(2), Sqrt(FSub(FSub(FAdd(F(1), m11), m00), m22)))
                 IN  Quaternion(
                        FDiv(FAdd(At(matrix, 0, 1), At(matrix, 1, 0)), s),
                        FMul(F32(1, 4), s),
                        FDiv(FAdd(At(matrix, 1, 2), At(matrix, 2, 1)), s),
                        FDiv(FSub(At(matrix, 0, 2), At(matrix, 2, 0)), s))
            ELSE LET s == FMul(F(2), Sqrt(FSub(FSub(FAdd(F(1), m22), m00), m11)))
                 IN  Quaternion(
                        FDiv(FAdd(At(matrix, 0, 2), At(matrix, 2, 0)), s),
                        FDiv(FAdd(At(matrix, 1, 2), At(matrix, 2, 1)), s),
                        FMul(F32(1, 4), s),
                        FDiv(FSub(At(matrix, 1, 0), At(matrix, 0, 1)), s))
    IN  QNormalized(result)

LookRotation(forward, up) ==
    LET f == V3Normalized(forward)
        u0 == V3Normalized(up)
        r == Cross(u0, f)
        u == Cross(f, r)
        m == [Matrix4_Identity EXCEPT
                ![0] = r.x, ![1] = r.y, ![2] = r.z,
                ![4] = u.x, ![5] = u.y, ![6] = u.z,
                ![8] = f.x, ![9] = f.y, ![10] = f.z]
    IN  FromRotationMatrix(m)

(***************************************************************************)
(* Transform (Math/Transform.h)                                            *)
(***************************************************************************)
Transform(position, rotation, scale) ==
    [position |-> position, rotation |-> rotation, scale |-> scale]

Transform_Default == Transform(Vector3_Zero, Quaternion_Identity, Vector3_One)

Transform_ToMatrix(t) ==
    M4Mul(M4Mul(Translation(t.position), QToMatrix(t.rotation)), Scale(t.scale))

(***************************************************************************)
(* The state                                                               *)
(***************************************************************************)
VARIABLES
    m_Objects,      \* Scene::m_Objects: the vector of SceneObject
    m_ObjectIndex,  \* Scene::m_ObjectIndex: name -> index into m_Objects
    m_Camera,       \* Scene::m_Camera: the Camera's members
    s_SceneData,    \* Renderer::s_SceneData: [viewProjectionMatrix]
    calls,          \* the renderer calls made by the latest operation, in order
    added,          \* history: the names added and not removed since
    lastCall,       \* history: the latest operation and its arguments
    engine,         \* the Engine's members and the position of Run
    input,          \* Input's statics: s_KeyState, s_KeyStatePrevious
    hookCalls,      \* history: how often each hook and glfwDestroyWindow ran
    resources,      \* ResourceManager::s_Shaders, and the shaders created so far
    timer,          \* a Time::Timer's members, and the clock it reads
    logging,        \* Log's file-logging statics and the standard streams
    events          \* the Events being dispatched: Handled_ of each

sceneVars == <<m_Objects, m_ObjectIndex>>
graphicsVars == <<m_Objects, m_ObjectIndex, m_Camera, s_SceneData, calls, added,
                  lastCall>>
engineVars == <<engine, input, hookCalls>>
utilVars == <<resources, timer, logging, events>>
vars == <<m_Objects, m_ObjectIndex, m_Camera, s_SceneData, calls, added, lastCall,
          engine, input, hookCalls, resources, timer, logging, events>>

\* Pointers, Ref<T> and std::function values: Null is nullptr (an empty
\* Ref, an empty function), Ref(x) refers to x.
Null == <<>>
Ref(x) == <<x>>
Deref(r) == r[1]

(***************************************************************************)
(* Camera (Graphics/Camera.h, Graphics/Camera.cpp)                         *)
(***************************************************************************)
Perspective_ == "Perspective"
Orthographic_ == "Orthographic"

Camera_GetForward(c) == QRotate(c.m_Rotation, Vector3_Forward)
Camera_GetUp(c) == QRotate(c.m_Rotation, Vector3_Up)

\* The view matrix Recalculate() derives from the members of c.
ViewOf(c) ==
    Matrix4_LookAt(c.m_Position, V3Add(c.m_Position, Camera_GetForward(c)),
                   Camera_GetUp(c))

\* The projection matrix Recalculate() derives from the members of c.
\* A faulty projection that takes m_Size as the half-height.
ProjectionOf_HalfHeight(c) ==
    IF c.m_Type = Perspective_
    THEN Perspective(c.m_FOV, c.m_Aspect, c.m_Near, c.m_Far)
    ELSE Orthographic(FNeg(FMul(c.m_Size, c.m_Aspect)),
                      FMul(c.m_Size, c.m_Aspect), FNeg(c.m_Size), c.m_Size,
                      c.m_Near, c.m_Far)

ProjectionOf(c) ==
    IF c.m_Type = Perspective_
    THEN Perspective(c.m_FOV, c.m_Aspect, c.m_Near, c.m_Far)
    ELSE LET right == FMul(FMul(c.m_Size, c.m_Aspect), F32(1, 2))
             left == FNeg(right)
             top == FMul(c.m_Size, F32(1, 2))
             bottom == FNeg(top)
         IN  Orthographic(left, right, bottom, top, c.m_Near, c.m_Far)

\* Camera::Recalculate
Recalculate(c) ==
    [c EXCEPT !.m_ViewMatrix = ViewOf(c), !.m_ProjectionMatrix = ProjectionOf(c)]

\* Camera::Camera()
Camera_Default ==
    Recalculate([m_Rotation |-> Quaternion_Identity,
                 m_Position |-> Vector3_Zero,
                 m_Type |-> Perspective_,
                 m_FOV |-> ToRadians(F(60)),
                 m_Aspect |-> F32(16, 9),
                 m_Near |-> F32(1, 10),
                 m_Far |-> F(1000),
                 m_Size |-> F(5),
                 m_ViewMatrix |-> Matrix4_Identity,
                 m_ProjectionMatrix |-> Matrix4_Identity])

\* Camera::Camera(type, fovOrSize, aspect, near, far).  The member of the
\* other mode (m_Size of a perspective camera, m_FOV of an orthographic one)
\* is left uninitialized: its value is `other`, any f32.
Camera_New(type, fovOrSize, aspect, near, far, other) ==
    Recalculate([m_Rotation |-> Quaternion_Identity,
                 m_Position |-> Vector3_Zero,
                 m_Type |-> type,
                 m_FOV |-> IF type = Perspective_ THEN fovOrSize ELSE other,
                 m_Aspect |-> aspect,
                 m_Near |-> near,
                 m_Far |-> far,
                 m_Size |-> IF type = Perspective_ THEN other ELSE fovOrSize,
                 m_ViewMatrix |-> Matrix4_Identity,
                 m_ProjectionMatrix |-> Matrix4_Identity])

\* What a call wrote to the log above the INFO level: an ENGINE_ERROR
\* message, an ENGINE_WARN message, or nothing.
LoggedError == "ERROR"
LoggedWarn == "WARN"
LoggedNothing == ""

\* A faulty SetPerspective that sets the mode before it validates.
Camera_SetPerspective_TypeFirst(c, fov, aspect, near, far) ==
    IF \/ FLe(fov, F(0)) \/ FGe(fov, PI) \/ FLe(aspect, F(0))
       \/ FLe(near, F(0)) \/ FLe(far, near)
    THEN <<[c EXCEPT !.m_Type = Perspective_], LoggedError>>
    ELSE <<Recalculate([c EXCEPT !.m_Type = Perspective_, !.m_FOV = fov,
                                 !.m_Aspect = aspect, !.m_Near = near,
                                 !.m_Far = far]),
           LoggedNothing>>

\* A faulty SetOrthographic that sets the mode before it validates.
Camera_SetOrthographic_TypeFirst(c, size, aspect, near, far) ==
    IF \/ FLe(size, F(0)) \/ FLe(aspect, F(0))
       \/ FLe(near, F(0)) \/ FLe(far, near)
    THEN <<[c EXCEPT !.m_Type = Orthographic_], LoggedError>>
    ELSE <<Recalculate([c EXCEPT !.m_Type = Orthographic_, !.m_Size = size,
                                 !.m_Aspect = aspect, !.m_Near = near,
                                 !.m_Far = far]),
           LoggedNothing>>

\* A faulty Move that leaves the cached matrices as they were.
Camera_Move_NoRecalculate(c, offset) ==
    [c EXCEPT !.m_Position = V3Add(c.m_Position, offset)]

\* Camera::SetPerspective: <<the camera after the call, what it logged>>
Camera_SetPerspective(c, fov, aspect, near, far) ==
    IF FLe(fov, F(0)) \/ FGe(fov, PI) THEN <<c, LoggedError>>
    ELSE IF FLe(aspect, F(0)) THEN <<c, LoggedError>>
    ELSE IF FLe(near, F(0)) THEN <<c, LoggedError>>
    ELSE IF FLe(far, near) THEN <<c, LoggedError>>
    ELSE <<Recalculate([c EXCEPT !.m_Type = Perspective_, !.m_FOV = fov,
                                 !.m_Aspect = aspect, !.m_Near = near,
                                 !.m_Far = far]),
           LoggedNothing>>

\* Camera::SetOrthographic: <<the camera after the call, what it logged>>
Camera_SetOrthographic(c, size, aspect, near, far) ==
    IF FLe(size, F(0)) THEN <<c, LoggedError>>
    ELSE IF FLe(aspect, F(0)) THEN <<c, LoggedError>>
    ELSE IF FLe(near, F(0)) THEN <<c, LoggedError>>
    ELSE IF FLe(far, near) THEN <<c, LoggedError>>
    ELSE <<Recalculate([c EXCEPT !.m_Type = Orthographic_, !.m_Size = size,
                                 !.m_Aspect = aspect, !.m_Near = near,
                                 !.m_Far = far]),
           LoggedNothing>>

Camera_SetPosition(c, position) == Recalculate([c EXCEPT !.m_Position = position])

Camera_SetRotation(c, rotation) == Recalculate([c EXCEPT !.m_Rotation = rotation])

Camera_LookAt(c, target, up) ==
    Recalculate([c EXCEPT
        !.m_Rotation = LookRotation(V3Sub(target, c.m_Position), up)])

Camera_Move(c, offset) ==
    Recalculate([c EXCEPT !.m_Position = V3Add(c.m_Position, offset)])

Camera_Rotate(c, rotation) ==
    Recalculate([c EXCEPT !.m_Rotation = QMul(rotation, c.m_Rotation)])

Camera_GetViewProjectionMatrix(c) == M4Mul(c.m_ProjectionMatrix, c.m_ViewMatrix)

(***************************************************************************)
(* Shader, VertexArray, Mesh, Renderer (Graphics/)                         *)
(***************************************************************************)
\* A Ref<Shader>: nullptr, or a shader whose program id glCreateProgram gave
\* (0 when it failed).
Shaders == {Null, Ref([m_RendererID |-> 1]), Ref([m_RendererID |-> 0])}

IndexBuffer(count) == Ref([m_Count |-> count])
VertexArray(indexBuffer) == Ref([m_IndexBuffer |-> indexBuffer])

\* Mesh::Mesh(vertices, indices): a vertex array with an index buffer of
\* indices.size() indices.
Mesh(indexCount) == Ref([m_VertexArray |-> VertexArray(IndexBuffer(indexCount))])

\* Mesh::CreatePlane() has 6 indices; Mesh({}, {}) has none.
PlaneIndexCount == 6
MeshPlane == Mesh(PlaneIndexCount)
MeshEmpty == Mesh(0)

\* The Ref<VertexArray> values a caller can hand to Renderer::Submit.
VertexArrays ==
    {Null, VertexArray(Null), VertexArray(IndexBuffer(0)),
     VertexArray(IndexBuffer(PlaneIndexCount))}

\* A faulty Submit that draws an index buffer of count 0.
Renderer_Submit_NoCountCheck(shader, vertexArray, transform, sd) ==
    IF shader = Null THEN <<>>
    ELSE IF vertexArray = Null THEN <<>>
    ELSE LET uploads ==
                 <<[value |-> sd.viewProjectionMatrix, op |-> "SetMatrix4",
                    name |-> "u_ViewProjection"],
                   [value |-> transform, op |-> "SetMatrix4", name |-> "u_Model"]>>
             indexBuffer == Deref(vertexArray).m_IndexBuffer
         IN  IF Deref(shader).m_RendererID = 0 THEN uploads
             ELSE IF indexBuffer = Null THEN uploads
             ELSE Append(uploads,
                         [indexCount |-> Deref(indexBuffer).m_Count,
                          op |-> "DrawIndexed"])

\* Renderer::Submit: the calls it makes, in order.  sd is *s_SceneData.
Renderer_Submit(shader, vertexArray, transform, sd) ==
    IF shader = Null THEN <<>>
    ELSE IF vertexArray = Null THEN <<>>
    ELSE LET uploads ==
                 <<[value |-> sd.viewProjectionMatrix, op |-> "SetMatrix4",
                    name |-> "u_ViewProjection"],
                   [value |-> transform, op |-> "SetMatrix4", name |-> "u_Model"]>>
             indexBuffer == Deref(vertexArray).m_IndexBuffer
         IN  IF Deref(shader).m_RendererID = 0 THEN uploads
             ELSE IF indexBuffer = Null THEN uploads
             ELSE IF Deref(indexBuffer).m_Count = 0 THEN uploads
             ELSE Append(uploads,
                         [indexCount |-> Deref(indexBuffer).m_Count,
                          op |-> "DrawIndexed"])

\* Mesh::Draw: the calls it makes, in order.  (The material's uniforms and
\* u_NormalMatrix are written to the shader as well; they are not recorded.)
Mesh_Draw(mesh, shader, transform, sd) ==
    IF shader = Null THEN <<>>
    ELSE LET upload == <<[value |-> transform, op |-> "SetMatrix4",
                          name |-> "u_Model"]>>
         IN  IF Deref(mesh).m_VertexArray = Null THEN upload
             ELSE upload \o Renderer_Submit(shader, Deref(mesh).m_VertexArray,
                                            transform, sd)

(***************************************************************************)
(* Scene (Graphics/Scene.h, Graphics/Scene.cpp)                            *)
(***************************************************************************)
Names == {"A", "B", "C"}

SceneObject(name, mesh, transform, onUpdate) ==
    [transform |-> transform, name |-> name, mesh |-> mesh, onUpdate |-> onUpdate]

TransformAtX == Transform(V3(1, 0, 0), Quaternion_Identity, Vector3_One)

\* The (mesh, transform, onUpdate) of the objects handed to AddObject.
ObjectVariants ==
    {<<Null, Transform_Default, Null>>,
     <<MeshPlane, TransformAtX, Ref("callback")>>,
     <<MeshEmpty, Transform_Default, Null>>}

SceneObjects ==
    {SceneObject(n, v[1], v[2], v[3]) : n \in Names, v \in ObjectVariants}

\* std::vector::erase(begin() + index), index counted from 0
Erase(seq, index) ==
    SubSeq(seq, 1, index) \o SubSeq(seq, index + 2, Len(seq))

\* A faulty AddObject that replaces the object of a name already present.
Scene_AddObject_Overwrite(objects, index, object) ==
    IF object.name \in DOMAIN index
    THEN <<[objects EXCEPT ![index[object.name] + 1] = object], index,
           LoggedWarn>>
    ELSE <<Append(objects, object),
           [n \in DOMAIN index \cup {object.name} |->
               IF n = object.name THEN Len(objects) ELSE index[n]],
           LoggedNothing>>

\* Scene::AddObject: <<m_Objects, m_ObjectIndex, what it logged>> after the
\* call
Scene_AddObject(objects, index, object) ==
    IF object.name \in DOMAIN index
    THEN <<objects, index, LoggedWarn>>
    ELSE <<Append(objects, object),
           [n \in DOMAIN index \cup {object.name} |->
               IF n = object.name THEN Len(objects) ELSE index[n]],
           LoggedNothing>>

\* A faulty RemoveObject that leaves the indices above the removed one as
\* they were.
Scene_RemoveObject_NoShift(objects, index, name) ==
    IF name \notin DOMAIN index
    THEN <<objects, index, LoggedWarn>>
    ELSE <<Erase(objects, index[name]),
           [n \in DOMAIN index \ {name} |-> index[n]], LoggedNothing>>

\* A faulty RemoveObject that leaves the removed name in the index.
Scene_RemoveObject_KeepsEntry(objects, index, name) ==
    IF name \notin DOMAIN index
    THEN <<objects, index, LoggedWarn>>
    ELSE <<Erase(objects, index[name]),
           [n \in DOMAIN index |->
               IF index[n] > index[name] THEN index[n] - 1 ELSE index[n]],
           LoggedNothing>>

\* A faulty RemoveObject that fills the gap with the last object of the list.
Scene_RemoveObject_SwapWithLast(objects, index, name) ==
    IF name \notin DOMAIN index
    THEN <<objects, index, LoggedWarn>>
    ELSE LET i == index[name]
             last == objects[Len(objects)]
         IN  IF i = Len(objects) - 1
             THEN <<SubSeq(objects, 1, i),
                    [n \in DOMAIN index \ {name} |-> index[n]], LoggedNothing>>
             ELSE <<SubSeq([objects EXCEPT ![i + 1] = last], 1,
                           Len(objects) - 1),
                    [n \in DOMAIN index \ {name} |->
                        IF n = last.name THEN i ELSE index[n]],
                    LoggedNothing>>

\* Scene::RemoveObject: <<m_Objects, m_ObjectIndex, what it logged>> after
\* the call
Scene_RemoveObject(objects, index, name) ==
    IF name \notin DOMAIN index
    THEN <<objects, index, LoggedWarn>>
    ELSE LET i == index[name]
         IN  <<Erase(objects, i),
               [n \in DOMAIN index \ {name} |->
                   IF index[n] > i THEN index[n] - 1 ELSE index[n]],
               LoggedNothing>>

\* Scene::FindObject: nullptr, or &m_Objects[i] as Ref(i)
Scene_FindObject(index, name) ==
    IF name \in DOMAIN index THEN Ref(index[name]) ELSE Null

\* The draws of Scene::Render's loop over objects[from..]
RECURSIVE RenderObjects(_, _, _, _)
RenderObjects(objects, from, shader, sd) ==
    IF from > Len(objects) THEN <<>>
    ELSE LET object == objects[from]
             m == Transform_ToMatrix(object.transform)
             drawn ==
                 IF object.mesh # Null
                 THEN <<[transform |-> m, op |-> "Draw", mesh |-> object.mesh]>>
                      \o Mesh_Draw(object.mesh, shader, m, sd)
                 ELSE <<>>
         IN  drawn \o RenderObjects(objects, from + 1, shader, sd)

\* Renderer::BeginScene: *s_SceneData after the call
Renderer_BeginScene(camera) ==
    [viewProjectionMatrix |-> Camera_GetViewProjectionMatrix(camera)]

\* A faulty Render that begins the scene whatever the shader.
Scene_Render_NoNullCheck(objects, camera, shader, sd) ==
    LET begun == Renderer_BeginScene(camera)
    IN  <<begun,
          <<[op |-> "BeginScene"]>>
          \o RenderObjects(objects, 1, shader, begun)
          \o <<[op |-> "EndScene"]>>>>

\* A faulty Render that begins the scene after the draws.
Scene_Render_BeginsLate(objects, camera, shader, sd) ==
    IF shader = Null THEN <<sd, <<>>>>
    ELSE <<Renderer_BeginScene(camera),
           RenderObjects(objects, 1, shader, sd)
           \o <<[op |-> "BeginScene"]>>
           \o <<[op |-> "EndScene"]>>>>

\* Scene::Render: <<*s_SceneData, the calls made>> after the call
Scene_Render(objects, camera, shader, sd) ==
    IF shader = Null THEN <<sd, <<>>>>
    ELSE LET begun == Renderer_BeginScene(camera)
         IN  <<begun,
               <<[op |-> "BeginScene"]>>
               \o RenderObjects(objects, 1, shader, begun)
               \o <<[op |-> "EndScene"]>>>>

\* Scene::Scene(): the default camera, then SetPerspective and SetPosition
Scene_Camera ==
    Camera_SetPosition(
        Camera_SetPerspective(Camera_Default, ToRadians(F(60)), F32(16, 9),
                              F32(1, 10), F(1000))[1],
        V3(0, 0, 5))

(***************************************************************************)
(* The inputs the operations are called with                               *)
(***************************************************************************)
\* Camera positions are kept within MaxCoord of the origin on each axis.
MaxCoord == 5

FovInputs == {F(-1), F(0), FDiv(PI, F(2)), PI}
SizeInputs == {F(-1), F(0), F(2)}
AspectInputs == {F(0), F(1)}
NearInputs == {F(0), F(1)}
FarInputs == {F(1), F(3)}

\* Arguments of Camera(type, fovOrSize, aspect, near, far): those of the
\* usage example in Camera.h, Camera(Perspective, 45.0f, 16.0f/9.0f, 0.1f,
\* 100.0f), in either mode.
CtorFovOrSize == F(45)
CtorAspect == F32(16, 9)
CtorNear == F32(1, 10)
CtorFar == F(100)
\* Values an uninitialized f32 member may hold.
Uninitialized == {F(0), F(-7)}

PositionInputs == {V3(0, 0, 5)}
OffsetInputs == {V3(0, 0, -5), V3(0, 0, 5)}
RotationInputs == {Quaternion_Identity, Q(0, 1, 0, 0)}
RotateInputs == {Q(1, 0, 0, 0)}
UpInputs == {V3(0, 1, 0)}
\* LookAt targets: on the line through the camera along the world Z axis.
TargetOffsets == {V3(0, 0, -5), V3(0, 0, 0), V3(0, 0, 5)}
\* LookAt arguments (target - position, up): the targets on the Z axis with
\* up = +Y, and a target on the X axis with up = +Z.
LookAtInputs ==
    (TargetOffsets \X UpInputs) \cup {<<V3(5, 0, 0), V3(0, 0, 1)>>}

\* The model matrix handed to direct Mesh::Draw and Renderer::Submit calls.
ModelMatrix == Transform_ToMatrix(TransformAtX)

InRange(v) ==
    /\ FLe(FAbs(v.x), F(MaxCoord))
    /\ FLe(FAbs(v.y), F(MaxCoord))
    /\ FLe(FAbs(v.z), F(MaxCoord))

(***************************************************************************)
(* Input (Input/Input.cpp): the key state arrays, for the keys in Keys     *)
(***************************************************************************)
Key_Escape == "Escape"
Key_Space == "Space"
Keys == {Key_Escape, Key_Space}

\* The zero-initialized statics, which is also what Input::Init sets.
Input_Static ==
    [s_KeyState |-> [k \in Keys |-> FALSE],
     s_KeyStatePrevious |-> [k \in Keys |-> FALSE]]

Input_Init(in) == Input_Static

\* A faulty Update that does not save the key states.
Input_Update_KeepsPrevious(in) == in

Input_Update(in) == [in EXCEPT !.s_KeyStatePrevious = in.s_KeyState]

Input_GetKey(in, key) == in.s_KeyState[key]

Input_GetKeyDown(in, key) == in.s_KeyState[key] /\ ~in.s_KeyStatePrevious[key]

Input_GetKeyUp(in, key) == ~in.s_KeyState[key] /\ in.s_KeyStatePrevious[key]

Input_SetKeyState(in, key, pressed) == [in EXCEPT !.s_KeyState[key] = pressed]

\* glfwPollEvents in Window::Update, as far as the keys go: the key events of
\* the frame reach Input::SetKeyState and leave the keys in keyState.
Window_PollEvents(in, keyState) ==
    Input_SetKeyState(Input_SetKeyState(in, Key_Escape, keyState[Key_Escape]),
                      Key_Space, keyState[Key_Space])

(***************************************************************************)
(* Window (Graphics/Window.cpp): m_Window is the GLFW handle, shouldClose  *)
(* is GLFW's close flag of that window                                     *)
(***************************************************************************)
Window_New == [m_Window |-> Null, shouldClose |-> FALSE]

\* Window::Initialize when GLFW, the window and Glad all come up.
Window_Initialize(w) == [w EXCEPT !.m_Window = Ref("GLFWwindow")]

\* Window::Shutdown: <<the window after the call, glfwDestroyWindow calls>>
Window_Shutdown(w) ==
    IF w.m_Window # Null THEN <<[w EXCEPT !.m_Window = Null], 1>>
    ELSE <<w, 0>>

Window_ShouldClose(w) == w.shouldClose

(***************************************************************************)
(* Engine (Core/Engine.cpp).  pc is where the caller of Run stands:        *)
(* "constructed" before Run, "loop" at the loop test, "returned" after Run *)
(* returned, "aborted" after an ENGINE_CRITICAL message ended the process, *)
(* "destroyed" after the destructor.                                       *)
(***************************************************************************)
Hooks == {"OnInitialize", "OnUpdate", "OnRender", "OnShutdown",
          "glfwDestroyWindow"}

Called(hc, hook, times) == [hc EXCEPT ![hook] = @ + times]

Engine_New ==
    [pc |-> "constructed", m_isRunning_ |-> FALSE, m_isMinimized |-> FALSE,
     m_Window_ |-> Null]

\* Engine::Initialize: <<engine, hookCalls>> after the call.  A window that
\* fails to initialize logs ENGINE_CRITICAL, and the Logger's destructor
\* aborts the process on that level.
Engine_Initialize(e, hc, windowOk) ==
    IF ~windowOk
    THEN <<[e EXCEPT !.m_Window_ = Ref(Window_New), !.pc = "aborted"], hc>>
    ELSE <<[e EXCEPT !.m_Window_ = Ref(Window_Initialize(Window_New)),
                     !.m_isRunning_ = TRUE],
           Called(hc, "OnInitialize", 1)>>

\* Engine::Shutdown: <<engine, hookCalls>> after the call
\* A faulty Shutdown without the guard on m_isRunning_.
Engine_Shutdown_NoGuard(e, hc) ==
    LET w == IF e.m_Window_ # Null
             THEN Window_Shutdown(Deref(e.m_Window_))
             ELSE <<Null, 0>>
    IN  <<[e EXCEPT !.m_Window_ = IF e.m_Window_ # Null THEN Ref(w[1])
                                  ELSE Null,
                    !.m_isRunning_ = FALSE],
          Called(Called(hc, "OnShutdown", 1), "glfwDestroyWindow", w[2])>>

Engine_Shutdown(e, hc) ==
    IF ~e.m_isRunning_ THEN <<e, hc>>
    ELSE LET w == IF e.m_Window_ # Null
                  THEN Window_Shutdown(Deref(e.m_Window_))
                  ELSE <<Null, 0>>
         IN  <<[e EXCEPT !.m_Window_ = IF e.m_Window_ # Null THEN Ref(w[1])
                                       ELSE Null,
                         !.m_isRunning_ = FALSE],
               Called(Called(hc, "OnShutdown", 1), "glfwDestroyWindow", w[2])>>

\* Engine::ProcessInput
Engine_ProcessInput(e, in) ==
    IF Input_GetKey(in, Key_Escape) THEN [e EXCEPT !.m_isRunning_ = FALSE]
    ELSE e

\* The condition of Run's while loop
Engine_LoopCondition(e) ==
    e.m_isRunning_ /\ ~Window_ShouldClose(Deref(e.m_Window_))

\* The frames the model lets the main loop run.
MaxFrames == 3

(***************************************************************************)
(* ResourceManager (Graphics/ResourceManager.cpp): s_Shaders maps a name   *)
(* to a Ref<Shader>; a shader is identified by the order of its creation,  *)
(* created counts the shaders Shader::Create* has built so far.            *)
(***************************************************************************)
ResourceManager_Static == [s_Shaders |-> [n \in {} |-> Null], created |-> 0]

(***************************************************************************)
(* Time::Timer (Core/Time.cpp): time points are clock ticks, now is the    *)
(* reading of Clock::now().                                                *)
(***************************************************************************)
\* Timer::Timer() at clock reading now: Reset().  previousTick records the
\* clock reading at the latest Tick(), or at construction if there was none.
Timer_New(now) ==
    [now |-> now, m_StartTime_ |-> now, m_LastFrameTime_ |-> now,
     previousTick |-> now]

(***************************************************************************)
(* File logging (Core/Log.h).  A std::streambuf* is the name of the buffer *)
(* it points at: one of the three console buffers, or FileBuf(k), the      *)
(* buffer owned by the k-th std::ofstream created; s_LogFile is Null or    *)
(* Ref(k); destroyed is the set of the files already destroyed.            *)
(***************************************************************************)
StdoutBuf == <<"console", 1>>
StderrBuf == <<"console", 2>>
StdlogBuf == <<"console", 3>>
FileBuf(k) == <<"file", k>>

Log_Static ==
    [s_LogFile |-> Null, s_OldCoutBuf |-> Null, s_OldCerrBuf |-> Null,
     s_OldClogBuf |-> Null,
     cout |-> StdoutBuf, cerr |-> StderrBuf, clog |-> StdlogBuf,
     files |-> 0, destroyed |-> {}]

(***************************************************************************)
(* Events (Core/Event.h): an Event is its Handled_ flag                    *)
(***************************************************************************)
MaxEvents == 4
Events == 1..MaxEvents

\* Event: bool Handled_ = false
Event_New == [Handled_ |-> FALSE]

(***************************************************************************)
(* Initial state: a Scene after its constructor, the Renderer's statics,   *)
(* an Engine after its constructor                                         *)
(***************************************************************************)
Init ==
    /\ m_Objects = <<>>
    /\ m_ObjectIndex = [n \in {} |-> 0]
    /\ m_Camera = Scene_Camera
    /\ s_SceneData = [viewProjectionMatrix |-> Matrix4_Identity]
    /\ calls = <<>>
    /\ added = {}
    /\ lastCall = [op |-> "Scene"]
    /\ engine = Engine_New
    /\ input = Input_Static
    /\ hookCalls = [h \in Hooks |-> 0]
    /\ resources = ResourceManager_Static
    /\ timer = Timer_New(0)
    /\ logging = Log_Static
    /\ events = [e \in Events |-> Event_New]

(***************************************************************************)
(* Scene operations                                                        *)
(***************************************************************************)
AddObject(object) ==
    /\ LET r == Scene_AddObject(m_Objects, m_ObjectIndex, object)
       IN  /\ m_Objects' = r[1]
           /\ m_ObjectIndex' = r[2]
           /\ lastCall' = [op |-> "AddObject", object |-> object,
                           logged |-> r[3]]
    /\ added' = added \cup {object.name}
    /\ calls' = <<>>
    /\ UNCHANGED <<m_Camera, s_SceneData, engine, input, hookCalls, utilVars>>

RemoveObject(name) ==
    /\ LET r == Scene_RemoveObject(m_Objects, m_ObjectIndex, name)
       IN  /\ m_Objects' = r[1]
           /\ m_ObjectIndex' = r[2]
           /\ lastCall' = [op |-> "RemoveObject", name |-> name,
                           logged |-> r[3]]
    /\ added' = added \ {name}
    /\ calls' = <<>>
    /\ UNCHANGED <<m_Camera, s_SceneData, engine, input, hookCalls, utilVars>>

FindObject(name) ==
    /\ calls' = <<>>
    /\ lastCall' = [result |-> Scene_FindObject(m_ObjectIndex, name),
                    op |-> "FindObject", name |-> name]
    /\ UNCHANGED <<m_Objects, m_ObjectIndex, m_Camera, s_SceneData, added,
                   engine, input, hookCalls, utilVars>>

Render(shader) ==
    /\ LET r == Scene_Render(m_Objects, m_Camera, shader, s_SceneData)
       IN  s_SceneData' = r[1] /\ calls' = r[2]
    /\ lastCall' = [shader |-> shader, op |-> "Render"]
    /\ UNCHANGED <<m_Objects, m_ObjectIndex, m_Camera, added,
                   engine, input, hookCalls, utilVars>>

(***************************************************************************)
(* Direct calls of Mesh::Draw and of the Renderer                          *)
(***************************************************************************)
MeshDraw(mesh, shader, transform) ==
    /\ calls' = Mesh_Draw(mesh, shader, transform, s_SceneData)
    /\ lastCall' = [shader |-> shader, op |-> "Mesh::Draw", mesh |-> mesh]
    /\ UNCHANGED <<m_Objects, m_ObjectIndex, m_Camera, s_SceneData, added,
                   engine, input, hookCalls, utilVars>>

Submit(shader, vertexArray, transform) ==
    /\ calls' = Renderer_Submit(shader, vertexArray, transform, s_SceneData)
    /\ lastCall' = [shader |-> shader, vertexArray |-> vertexArray,
                    op |-> "Submit"]
    /\ UNCHANGED <<m_Objects, m_ObjectIndex, m_Camera, s_SceneData, added,
                   engine, input, hookCalls, utilVars>>

(***************************************************************************)
(* Camera operations, on the scene's camera (Scene::GetCamera())           *)
(***************************************************************************)
CameraStep(op, camera) ==
    /\ m_Camera' = camera
    /\ calls' = <<>>
    /\ lastCall' = op
    /\ UNCHANGED <<m_Objects, m_ObjectIndex, s_SceneData, added,
                   engine, input, hookCalls, utilVars>>

\* Scene::SetCamera(Camera(type, fovOrSize, aspect, near, far))
SetCamera(type, fovOrSize, aspect, near, far, other) ==
    CameraStep([op |-> "SetCamera"],
               Camera_New(type, fovOrSize, aspect, near, far, other))

SetPerspective(fov, aspect, near, far) ==
    LET r == Camera_SetPerspective(m_Camera, fov, aspect, near, far)
    IN  CameraStep([op |-> "SetPerspective", logged |-> r[2]], r[1])

SetOrthographic(size, aspect, near, far) ==
    LET r == Camera_SetOrthographic(m_Camera, size, aspect, near, far)
    IN  CameraStep([op |-> "SetOrthographic", logged |-> r[2]], r[1])

SetPosition(position) ==
    CameraStep([op |-> "SetPosition"], Camera_SetPosition(m_Camera, position))

SetRotation(rotation) ==
    CameraStep([op |-> "SetRotation"], Camera_SetRotation(m_Camera, rotation))

Move(offset) ==
    /\ InRange(V3Add(m_Camera.m_Position, offset))
    /\ CameraStep([op |-> "Move"], Camera_Move(m_Camera, offset))

Rotate(rotation) ==
    CameraStep([op |-> "Rotate"], Camera_Rotate(m_Camera, rotation))

LookAt(target, up) ==
    CameraStep([op |-> "LookAt"], Camera_LookAt(m_Camera, target, up))

(***************************************************************************)
(* Engine::Run, in steps: up to the loop test, one pass of the loop body,  *)
(* and from the failed loop test to the return                             *)
(***************************************************************************)
EngineStep(e, in, hc) ==
    /\ engine' = e
    /\ input' = in
    /\ hookCalls' = hc
    /\ UNCHANGED <<graphicsVars, utilVars>>

\* Run up to the loop test: Initialize(), then Input::Init().
Run_Initialize(windowOk) ==
    /\ engine.pc = "constructed"
    /\ LET r == Engine_Initialize(engine, hookCalls, windowOk)
       IN  IF r[1].pc = "aborted" THEN EngineStep(r[1], input, r[2])
           ELSE EngineStep([r[1] EXCEPT !.pc = "loop"], Input_Init(input), r[2])

\* One pass of the loop body: ProcessInput, Update, Render, Window::Update.
\* Window::Update calls Input::Update and then polls the events; keyState is
\* the key state the frame's SetKeyState calls leave, close is whether the
\* user asked the window to close.
Run_Frame(keyState, close) ==
    /\ engine.pc = "loop"
    /\ Engine_LoopCondition(engine)
    /\ hookCalls["OnUpdate"] < MaxFrames
    /\ LET e1 == Engine_ProcessInput(engine, input)
           hc1 == Called(hookCalls, "OnUpdate", 1)
           hc2 == IF ~e1.m_isMinimized THEN Called(hc1, "OnRender", 1) ELSE hc1
           in1 == Input_Update(input)
           in2 == Window_PollEvents(in1, keyState)
           w   == Deref(e1.m_Window_)
           e2  == [e1 EXCEPT !.m_Window_ =
                       Ref([w EXCEPT !.shouldClose = w.shouldClose \/ close])]
       IN  EngineStep(e2, in2, hc2)

\* The loop test fails: Shutdown(), and Run returns.
Run_Exit ==
    /\ engine.pc = "loop"
    /\ ~Engine_LoopCondition(engine)
    /\ LET r == Engine_Shutdown(engine, hookCalls)
       IN  EngineStep([r[1] EXCEPT !.pc = "returned"], input, r[2])

\* Engine::~Engine: Shutdown(), then the Scope<Window> member is destroyed,
\* and Window::~Window calls Window::Shutdown.
Engine_Destructor ==
    /\ engine.pc \in {"constructed", "returned"}
    /\ LET r == Engine_Shutdown(engine, hookCalls)
           w == IF r[1].m_Window_ # Null
                THEN Window_Shutdown(Deref(r[1].m_Window_))
                ELSE <<Null, 0>>
       IN  EngineStep([r[1] EXCEPT !.pc = "destroyed", !.m_Window_ = Null],
                      input, Called(r[2], "glfwDestroyWindow", w[2]))

(***************************************************************************)
(* Specifications                                                          *)
(***************************************************************************)
SceneNext ==
    \/ \E object \in SceneObjects : AddObject(object)
    \/ \E name \in Names : RemoveObject(name)
    \/ \E name \in Names : FindObject(name)

SpecScene == Init /\ [][SceneNext]_vars

CameraNext ==
    \/ \E type \in {Perspective_, Orthographic_}, other \in Uninitialized :
            SetCamera(type, CtorFovOrSize, CtorAspect, CtorNear, CtorFar, other)
    \/ \E fov \in FovInputs, aspect \in AspectInputs, near \in NearInputs,
          far \in FarInputs : SetPerspective(fov, aspect, near, far)
    \/ \E size \in SizeInputs, aspect \in AspectInputs, near \in NearInputs,
          far \in FarInputs : SetOrthographic(size, aspect, near, far)
    \/ \E position \in PositionInputs : SetPosition(position)
    \/ \E rotation \in RotationInputs : SetRotation(rotation)
    \/ \E offset \in OffsetInputs : Move(offset)
    \/ \E rotation \in RotateInputs : Rotate(rotation)
    \/ \E a \in LookAtInputs : LookAt(V3Add(m_Camera.m_Position, a[1]), a[2])

SpecCamera == Init /\ [][CameraNext]_vars

RenderNext ==
    \/ \E object \in SceneObjects : AddObject(object)
    \/ \E shader \in Shaders : Render(shader)
    \/ \E mesh \in {MeshPlane, MeshEmpty}, shader \in Shaders :
            MeshDraw(mesh, shader, ModelMatrix)
    \/ \E shader \in Shaders, vertexArray \in VertexArrays :
            Submit(shader, vertexArray, ModelMatrix)

SpecRender == Init /\ [][RenderNext]_vars

EngineNext ==
    \/ \E windowOk \in BOOLEAN : Run_Initialize(windowOk)
    \/ \E keyState \in [Keys -> BOOLEAN], close \in BOOLEAN :
            Run_Frame(keyState, close)
    \/ Run_Exit
    \/ Engine_Destructor

SpecEngine == Init /\ [][EngineNext]_vars

(***************************************************************************)
(* Properties of the Scene                                                 *)
(***************************************************************************)
NamePresent(name) == \E i \in 1..Len(m_Objects) : m_Objects[i].name = name

\* C1: after any sequence of AddObject and RemoveObject calls the index has
\* exactly one entry per object of the list (names are unique, the sizes are
\* equal), every recorded index is within the list, and the object at the
\* recorded index of a name has that name.
C1_IndexConsistent ==
    /\ DOMAIN m_ObjectIndex = {m_Objects[i].name : i \in 1..Len(m_Objects)}
    /\ Cardinality(DOMAIN m_ObjectIndex) = Len(m_Objects)
    /\ \A n \in DOMAIN m_ObjectIndex :
          /\ m_ObjectIndex[n] \in 0..(Len(m_Objects) - 1)
          /\ m_Objects[m_ObjectIndex[n] + 1].name = n

\* An object was removed from the scene and two objects remain, the second
\* one recorded at index 1.
C1_Witness ==
    /\ lastCall.op = "RemoveObject"
    /\ lastCall.logged = LoggedNothing
    /\ Len(m_Objects) = 2
    /\ m_ObjectIndex[m_Objects[2].name] = 1

\* C2: FindObject(name) is non-null exactly when name has been added and not
\* removed since, the object it returns carries that name, and it is null
\* right after RemoveObject(name).
C2_FindObject ==
    /\ \A n \in Names : (Scene_FindObject(m_ObjectIndex, n) # Null) <=> (n \in added)
    /\ \A n \in Names :
          Scene_FindObject(m_ObjectIndex, n) # Null =>
              m_Objects[Deref(Scene_FindObject(m_ObjectIndex, n)) + 1].name = n
    /\ lastCall.op = "RemoveObject" =>
          Scene_FindObject(m_ObjectIndex, lastCall.name) = Null
    /\ lastCall.op = "FindObject" =>
          /\ (lastCall.result # Null) <=> (lastCall.name \in added)
          /\ lastCall.result # Null =>
                m_Objects[Deref(lastCall.result) + 1].name = lastCall.name

\* FindObject found an object behind the first one while another name, added
\* earlier, is no longer in the scene.
C2_Witness ==
    /\ lastCall.op = "FindObject"
    /\ lastCall.result # Null
    /\ Deref(lastCall.result) > 0
    /\ Cardinality(added) = 2

\* C3: AddObject with a name that is already present and RemoveObject with a
\* name that is absent leave the object list and the name index unchanged.
C3_RejectedIsNoOp ==
    [][/\ (lastCall'.op = "AddObject" /\ NamePresent(lastCall'.object.name))
            => UNCHANGED <<m_Objects, m_ObjectIndex>>
       /\ (lastCall'.op = "RemoveObject" /\ ~NamePresent(lastCall'.name))
            => UNCHANGED <<m_Objects, m_ObjectIndex>>]_vars

\* AddObject was called with an object that differs from the one the scene
\* holds under the same name.
C3_Witness ==
    /\ lastCall.op = "AddObject"
    /\ lastCall.logged = LoggedWarn
    /\ \E i \in 1..Len(m_Objects) :
          /\ m_Objects[i].name = lastCall.object.name
          /\ m_Objects[i] # lastCall.object

(***************************************************************************)
(* Properties of the Camera                                                *)
(***************************************************************************)
InvalidPerspective(fov, aspect, near, far) ==
    \/ FLe(fov, F(0))
    \/ FGe(fov, PI)
    \/ FLe(aspect, F(0))
    \/ FLe(near, F(0))
    \/ FLe(far, near)

InvalidOrthographic(size, aspect, near, far) ==
    \/ FLe(size, F(0))
    \/ FLe(aspect, F(0))
    \/ FLe(near, F(0))
    \/ FLe(far, near)

C5_ParametersValid ==
    /\ FGt(m_Camera.m_Far, m_Camera.m_Near)
    /\ FGt(m_Camera.m_Near, F(0))
    /\ FGt(m_Camera.m_Aspect, F(0))
    /\ m_Camera.m_Type = Perspective_ =>
          FGt(m_Camera.m_FOV, F(0)) /\ FLt(m_Camera.m_FOV, PI)

\* C6: only an accepted setter switches the projection mode: after an
\* accepted SetPerspective the mode is Perspective, after an accepted
\* SetOrthographic it is Orthographic, no other mutator changes it, and a
\* SetOrthographic call with size <= 0, aspect <= 0, near <= 0 or
\* far <= near changes no member of the camera.
C6_ModeSwitch ==
    [][/\ \A fov \in FovInputs, aspect \in AspectInputs, near \in NearInputs,
             far \in FarInputs :
               (/\ lastCall'.op = "SetPerspective"
                /\ ~InvalidPerspective(fov, aspect, near, far)
                /\ SetPerspective(fov, aspect, near, far))
               => m_Camera'.m_Type = Perspective_
       /\ \A size \in SizeInputs, aspect \in AspectInputs, near \in NearInputs,
             far \in FarInputs :
               (/\ lastCall'.op = "SetOrthographic"
                /\ SetOrthographic(size, aspect, near, far))
               => IF InvalidOrthographic(size, aspect, near, far)
                  THEN m_Camera' = m_Camera
                  ELSE m_Camera'.m_Type = Orthographic_
       /\ (lastCall'.op # "SetCamera" /\ m_Camera'.m_Type # m_Camera.m_Type)
            => /\ lastCall'.op \in {"SetPerspective", "SetOrthographic"}
               /\ lastCall'.logged = LoggedNothing]_vars

\* A perspective camera has just rejected a SetOrthographic call.
C6_Witness ==
    /\ lastCall.op = "SetOrthographic"
    /\ lastCall.logged = LoggedError
    /\ m_Camera.m_Type = Perspective_

\* C7: after any sequence of mutator calls the view matrix equals
\* Matrix4::LookAt(position, position + GetForward(), GetUp()) and the
\* projection matrix equals the Perspective or Orthographic matrix of the
\* current mode and parameters.
C7_MatricesFresh ==
    /\ m_Camera.m_ViewMatrix =
          Matrix4_LookAt(m_Camera.m_Position,
                         V3Add(m_Camera.m_Position, Camera_GetForward(m_Camera)),
                         Camera_GetUp(m_Camera))
    /\ m_Camera.m_Type = Perspective_ =>
          m_Camera.m_ProjectionMatrix =
              Perspective(m_Camera.m_FOV, m_Camera.m_Aspect, m_Camera.m_Near,
                          m_Camera.m_Far)
    /\ m_Camera.m_Type = Orthographic_ =>
          m_Camera.m_ProjectionMatrix =
              Orthographic(FNeg(FDiv(FMul(m_Camera.m_Size, m_Camera.m_Aspect), F(2))),
                           FDiv(FMul(m_Camera.m_Size, m_Camera.m_Aspect), F(2)),
                           FNeg(FDiv(m_Camera.m_Size, F(2))),
                           FDiv(m_Camera.m_Size, F(2)),
                           m_Camera.m_Near, m_Camera.m_Far)

\* A rotated orthographic camera has just been moved away from where the
\* scene's constructor put it.
C7_Witness ==
    /\ lastCall.op = "Move"
    /\ m_Camera.m_Type = Orthographic_
    /\ m_Camera.m_Rotation # Quaternion_Identity
    /\ m_Camera.m_Position # V3(0, 0, 5)

(***************************************************************************)
(* Properties of rendering                                                 *)
(***************************************************************************)
CountOf(cs, op) == Cardinality({i \in 1..Len(cs) : cs[i].op = op})

IsDraw(call) == call.op = "Draw"

HasMesh(object) == object.mesh # Null

\* C8: Scene::Render with a null shader does not call BeginScene, leaves the
\* renderer's view-projection matrix unchanged and draws no object.
C8_NullShaderRender ==
    [][(lastCall'.op = "Render" /\ lastCall'.shader = Null)
        => /\ CountOf(calls', "BeginScene") = 0
           /\ CountOf(calls', "Draw") = 0
           /\ CountOf(calls', "DrawIndexed") = 0
           /\ s_SceneData' = s_SceneData]_vars

\* Render was called with a null shader on a scene that holds a mesh, while
\* the renderer's matrix is not the camera's.
C8_Witness ==
    /\ lastCall.op = "Render"
    /\ lastCall.shader = Null
    /\ \E i \in 1..Len(m_Objects) : HasMesh(m_Objects[i])
    /\ s_SceneData.viewProjectionMatrix # Camera_GetViewProjectionMatrix(m_Camera)

\* C9: Mesh::Draw and Renderer::Submit issue no DrawIndexed when the shader
\* or the vertex array is null (Submit also when the index buffer is null or
\* its count is 0); a Render pass with a shader still draws every object
\* that has a mesh, in order, issues DrawIndexed for each mesh with indices
\* when the shader has a program, and reaches EndScene.
C9_SkippedDraw ==
    /\ (lastCall.op = "Mesh::Draw" /\
            (lastCall.shader = Null \/ Deref(lastCall.mesh).m_VertexArray = Null))
         => CountOf(calls, "DrawIndexed") = 0
    /\ (lastCall.op = "Submit" /\
            (\/ lastCall.shader = Null
             \/ lastCall.vertexArray = Null
             \/ Deref(lastCall.vertexArray).m_IndexBuffer = Null
             \/ Deref(Deref(lastCall.vertexArray).m_IndexBuffer).m_Count = 0))
         => CountOf(calls, "DrawIndexed") = 0
    /\ (lastCall.op = "Render" /\ lastCall.shader # Null)
         => /\ calls[Len(calls)].op = "EndScene"
            /\ LET draws == SelectSeq(calls, IsDraw)
                   meshes == SelectSeq(m_Objects, HasMesh)
               IN  /\ Len(draws) = Len(meshes)
                   /\ \A i \in 1..Len(draws) :
                         /\ draws[i].mesh = meshes[i].mesh
                         /\ draws[i].transform =
                                Transform_ToMatrix(meshes[i].transform)
            /\ CountOf(calls, "DrawIndexed") =
                  IF Deref(lastCall.shader).m_RendererID = 0 THEN 0
                  ELSE Cardinality({i \in 1..Len(m_Objects) :
                           /\ HasMesh(m_Objects[i])
                           /\ Deref(Deref(Deref(m_Objects[i].mesh).m_VertexArray)
                                    .m_IndexBuffer).m_Count > 0})

\* A Render pass with a usable shader went over an object without a mesh and
\* a mesh without indices before it drew the plane.
C9_Witness ==
    /\ lastCall.op = "Render"
    /\ lastCall.shader # Null
    /\ Deref(lastCall.shader).m_RendererID # 0
    /\ Len(m_Objects) = 3
    /\ ~HasMesh(m_Objects[1])
    /\ m_Objects[2].mesh = MeshEmpty
    /\ m_Objects[3].mesh = MeshPlane
    /\ CountOf(calls, "DrawIndexed") = 1

(***************************************************************************)
(* Properties of the Engine                                                *)
(***************************************************************************)
\* C10: whenever Run's main loop ends after a successful Initialize, by the
\* window's close request or by the Escape key, Run has invoked OnShutdown
\* and shut the window down when it returns.
C10_CleanupBeforeReturn ==
    engine.pc = "returned" =>
        /\ hookCalls["OnShutdown"] >= 1
        /\ Deref(engine.m_Window_).m_Window = Null

\* The window failed to initialize under Engine::Initialize.
WindowFailed ==
    /\ engine.m_Window_ # Null
    /\ Deref(engine.m_Window_).m_Window = Null
    /\ hookCalls["OnInitialize"] = 0

\* C11: if the window cannot be initialized, Initialize returns false and Run
\* returns to its caller, without entering the main loop and without calling
\* OnInitialize, OnUpdate or OnRender.
C11_FailureReturned ==
    WindowFailed =>
        /\ engine.pc \in {"returned", "destroyed"}
        /\ hookCalls["OnInitialize"] = 0
        /\ hookCalls["OnUpdate"] = 0
        /\ hookCalls["OnRender"] = 0

(***************************************************************************)
(* Matrix inversion (Math/Matrix4.h, Math/Matrix3.h)                       *)
(***************************************************************************)
\* A faulty determinant that stops after the first cofactor.
Matrix4_Determinant_FirstCofactor(m) ==
    FMul(m[0], FAdd(FSub(FMul(m[5], FSub(FMul(m[10], m[15]), FMul(m[11], m[14]))),
                         FMul(m[6], FSub(FMul(m[9], m[15]), FMul(m[11], m[13])))),
                    FMul(m[7], FSub(FMul(m[9], m[14]), FMul(m[10], m[13])))))

\* Matrix4::Determinant: the cofactor expansion along the first row
Matrix4_Determinant(m) ==
    FSub(FAdd(FSub(FAdd(F(0), FMul(m[0], FAdd(FSub(FMul(m[5],
    FSub(FMul(m[10], m[15]), FMul(m[11], m[14]))), FMul(m[6], FSub(FMul(m[9],
    m[15]), FMul(m[11], m[13])))), FMul(m[7], FSub(FMul(m[9], m[14]),
    FMul(m[10], m[13])))))), FMul(m[1], FAdd(FSub(FMul(m[4], FSub(FMul(m[10],
    m[15]), FMul(m[11], m[14]))), FMul(m[6], FSub(FMul(m[8], m[15]),
    FMul(m[11], m[12])))), FMul(m[7], FSub(FMul(m[8], m[14]), FMul(m[10],
    m[12])))))), FMul(m[2], FAdd(FSub(FMul(m[4], FSub(FMul(m[9], m[15]),
    FMul(m[11], m[13]))), FMul(m[5], FSub(FMul(m[8], m[15]), FMul(m[11],
    m[12])))), FMul(m[7], FSub(FMul(m[8], m[13]), FMul(m[9], m[12])))))),
    FMul(m[3], FAdd(FSub(FMul(m[4], FSub(FMul(m[9], m[14]), FMul(m[10],
    m[13]))), FMul(m[5], FSub(FMul(m[8], m[14]), FMul(m[10], m[12])))),
    FMul(m[6], FSub(FMul(m[8], m[13]), FMul(m[9], m[12]))))))

\* Matrix4::Inverted
Matrix4_Inverted(m) ==
    LET det == Matrix4_Determinant(m)
    IN  IF NearZero(det) THEN Matrix4_Identity
        ELSE LET invDet == FDiv(F(1), det)
                 result == <<
                FMul(invDet, FAdd(FSub(FMul(m[5], FSub(FMul(m[10],
                m[15]), FMul(m[11], m[14]))), FMul(m[6], FSub(FMul(m[9],
                m[15]), FMul(m[11], m[13])))), FMul(m[7], FSub(FMul(m[9],
                m[14]), FMul(m[10], m[13]))))),
                FMul(FNeg(invDet), FAdd(FSub(FMul(m[1], FSub(FMul(m[10],
                m[15]), FMul(m[11], m[14]))), FMul(m[2], FSub(FMul(m[9],
                m[15]), FMul(m[11], m[13])))), FMul(m[3], FSub(FMul(m[9],
                m[14]), FMul(m[10], m[13]))))),
                FMul(invDet, FAdd(FSub(FMul(m[1], FSub(FMul(m[6],
                m[15]), FMul(m[7], m[14]))), FMul(m[2], FSub(FMul(m[5],
                m[15]), FMul(m[7], m[13])))), FMul(m[3], FSub(FMul(m[5],
                m[14]), FMul(m[6], m[13]))))),
                FMul(FNeg(invDet), FAdd(FSub(FMul(m[1], FSub(FMul(m[6],
                m[11]), FMul(m[7], m[10]))), FMul(m[2], FSub(FMul(m[5],
                m[11]), FMul(m[7], m[9])))), FMul(m[3], FSub(FMul(m[5],
                m[10]), FMul(m[6], m[9]))))),
                FMul(FNeg(invDet), FAdd(FSub(FMul(m[4], FSub(FMul(m[10],
                m[15]), FMul(m[11], m[14]))), FMul(m[6], FSub(FMul(m[8],
                m[15]), FMul(m[11], m[12])))), FMul(m[7], FSub(FMul(m[8],
                m[14]), FMul(m[10], m[12]))))),
                FMul(invDet, FAdd(FSub(FMul(m[0], FSub(FMul(m[10],
                m[15]), FMul(m[11], m[14]))), FMul(m[2], FSub(FMul(m[8],
                m[15]), FMul(m[11], m[12])))), FMul(m[3], FSub(FMul(m[8],
                m[14]), FMul(m[10], m[12]))))),
                FMul(FNeg(invDet), FAdd(FSub(FMul(m[0], FSub(FMul(m[6],
                m[15]), FMul(m[7], m[14]))), FMul(m[2], FSub(FMul(m[4],
                m[15]), FMul(m[7], m[12])))), FMul(m[3], FSub(FMul(m[4],
                m[14]), FMul(m[6], m[12]))))),
                FMul(invDet, FAdd(FSub(FMul(m[0], FSub(FMul(m[6],
                m[11]), FMul(m[7], m[10]))), FMul(m[2], FSub(FMul(m[4],
                m[11]), FMul(m[7], m[8])))), FMul(m[3], FSub(FMul(m[4],
                m[10]), FMul(m[6], m[8]))))),
                FMul(invDet, FAdd(FSub(FMul(m[4], FSub(FMul(m[9],
                m[15]), FMul(m[11], m[13]))), FMul(m[5], FSub(FMul(m[8],
                m[15]), FMul(m[11], m[12])))), FMul(m[7], FSub(FMul(m[8],
                m[13]), FMul(m[9], m[12]))))),
                FMul(FNeg(invDet), FAdd(FSub(FMul(m[0], FSub(FMul(m[9],
                m[15]), FMul(m[11], m[13]))), FMul(m[1], FSub(FMul(m[8],
                m[15]), FMul(m[11], m[12])))), FMul(m[3], FSub(FMul(m[8],
                m[13]), FMul(m[9], m[12]))))),
                FMul(invDet, FAdd(FSub(FMul(m[0], FSub(FMul(m[5],
                m[15]), FMul(m[7], m[13]))), FMul(m[1], FSub(FMul(m[4],
                m[15]), FMul(m[7], m[12])))), FMul(m[3], FSub(FMul(m[4],
                m[13]), FMul(m[5], m[12]))))),
                FMul(FNeg(invDet), FAdd(FSub(FMul(m[0], FSub(FMul(m[5],
                m[11]), FMul(m[7], m[9]))), FMul(m[1], FSub(FMul(m[4],
                m[11]), FMul(m[7], m[8])))), FMul(m[3], FSub(FMul(m[4],
                m[9]), FMul(m[5], m[8]))))),
                FMul(FNeg(invDet), FAdd(FSub(FMul(m[4], FSub(FMul(m[9],
                m[14]), FMul(m[10], m[13]))), FMul(m[5], FSub(FMul(m[8],
                m[14]), FMul(m[10], m[12])))), FMul(m[6], FSub(FMul(m[8],
                m[13]), FMul(m[9], m[12]))))),
                FMul(invDet, FAdd(FSub(FMul(m[0], FSub(FMul(m[9],
                m[14]), FMul(m[10], m[13]))), FMul(m[1], FSub(FMul(m[8],
                m[14]), FMul(m[10], m[12])))), FMul(m[2], FSub(FMul(m[8],
                m[13]), FMul(m[9], m[12]))))),
                FMul(FNeg(invDet), FAdd(FSub(FMul(m[0], FSub(FMul(m[5],
                m[14]), FMul(m[6], m[13]))), FMul(m[1], FSub(FMul(m[4],
                m[14]), FMul(m[6], m[12])))), FMul(m[2], FSub(FMul(m[4],
                m[13]), FMul(m[5], m[12]))))),
                FMul(invDet, FAdd(FSub(FMul(m[0], FSub(FMul(m[5],
                m[10]), FMul(m[6], m[9]))), FMul(m[1], FSub(FMul(m[4],
                m[10]), FMul(m[6], m[8])))), FMul(m[2], FSub(FMul(m[4],
                m[9]), FMul(m[5], m[8]))))) >>
             IN  [i \in 0..15 |-> result[i + 1]]

Matrix3_Identity == [i \in 0..8 |-> IF i \in {0, 4, 8} THEN F(1) ELSE F(0)]

\* Matrix3::Determinant
Matrix3_Determinant(m) ==
    FAdd(FSub(FMul(m[0], FSub(FMul(m[4], m[8]), FMul(m[5], m[7]))),
    FMul(m[1], FSub(FMul(m[3], m[8]), FMul(m[5], m[6])))), FMul(m[2],
    FSub(FMul(m[3], m[7]), FMul(m[4], m[6]))))

\* Matrix3::Inverted
Matrix3_Inverted(m) ==
    LET det == Matrix3_Determinant(m)
    IN  IF NearZero(det) THEN Matrix3_Identity
        ELSE LET invDet == FDiv(F(1), det)
                 result == <<
                FMul(FSub(FMul(m[4], m[8]), FMul(m[5], m[7])), invDet),
                FMul(FSub(FMul(m[2], m[7]), FMul(m[1], m[8])), invDet),
                FMul(FSub(FMul(m[1], m[5]), FMul(m[2], m[4])), invDet),
                FMul(FSub(FMul(m[5], m[6]), FMul(m[3], m[8])), invDet),
                FMul(FSub(FMul(m[0], m[8]), FMul(m[2], m[6])), invDet),
                FMul(FSub(FMul(m[2], m[3]), FMul(m[0], m[5])), invDet),
                FMul(FSub(FMul(m[3], m[7]), FMul(m[4], m[6])), invDet),
                FMul(FSub(FMul(m[1], m[6]), FMul(m[0], m[7])), invDet),
                FMul(FSub(FMul(m[0], m[4]), FMul(m[1], m[3])), invDet) >>
             IN  [i \in 0..8 |-> result[i + 1]]

(***************************************************************************)
(* The matrices handed to Inverted()                                       *)
(***************************************************************************)
Matrix4_Zero == [i \in 0..15 |-> F(0)]

\* Rows of small integers: one of determinant -3, one with two equal rows.
Matrix4_Dense ==
    [i \in 0..15 |-> F(<<2, 1, 0, 3,  1, 1, 4, 0,  0, 2, 1, 1,  1, 0, 0, 2>>[i + 1])]
Matrix4_EqualRows ==
    [i \in 0..15 |-> F(<<2, 1, 0, 3,  2, 1, 0, 3,  0, 2, 1, 1,  1, 0, 0, 2>>[i + 1])]

ScaleFactors == {F32(1, 100), F(1), F(2)}

Matrix4Inputs ==
    {Matrix4_Zero, Matrix4_Dense, Matrix4_EqualRows,
     Perspective(FDiv(PI, F(2)), F(1), F(1), F(3)),
     Orthographic(F(-1), F(1), F(-1), F(1), F(1), F(3))}
    \cup {Scale(Vector3(a, b, c)) : a \in ScaleFactors, b \in ScaleFactors,
                                    c \in ScaleFactors}
    \cup {Transform_ToMatrix(Transform(V3(1, 2, 3), q, Vector3(s, F(1), F(2)))) :
            q \in {Quaternion_Identity, Q(1, 0, 0, 0), Q(0, 1, 0, 0), Q(0, 0, 1, 0)},
            s \in ScaleFactors}

Matrix3Inputs ==
    {[i \in 0..8 |-> F(0)],
     [i \in 0..8 |-> F(<<2, 1, 0,  1, 1, 4,  0, 2, 1>>[i + 1])],
     [i \in 0..8 |-> F(<<2, 1, 0,  2, 1, 0,  0, 2, 1>>[i + 1])]}
    \cup {[i \in 0..8 |-> IF i = 0 THEN a ELSE IF i = 4 THEN b
                          ELSE IF i = 8 THEN c ELSE F(0)] :
            a \in ScaleFactors, b \in ScaleFactors, c \in ScaleFactors}

(***************************************************************************)
(* Calls of the math library's functions: the call and its result are      *)
(* recorded in lastCall                                                    *)
(***************************************************************************)
MathStep(op, arg, result) ==
    /\ lastCall' = [result |-> result, op |-> op, arg |-> arg]
    /\ calls' = <<>>
    /\ UNCHANGED <<m_Objects, m_ObjectIndex, m_Camera, s_SceneData, added,
                   engineVars, utilVars>>

Matrix4Inverted(m) ==
    MathStep("Matrix4::Inverted", m, Matrix4_Inverted(m))

Matrix3Inverted(m) ==
    MathStep("Matrix3::Inverted", m, Matrix3_Inverted(m))

(***************************************************************************)
(* Properties of matrix inversion                                          *)
(***************************************************************************)
\* C12: Matrix4::Inverted() and Matrix3::Inverted() of a matrix whose
\* determinant d has |d| <= 1e-6, the all-zero matrix among them, return the
\* Identity matrix.
C12_SingularInverse ==
    /\ (lastCall.op = "Matrix4::Inverted"
        /\ FLe(FAbs(Matrix4_Determinant(lastCall.arg)), F32(1, 1000000)))
         => lastCall.result = Matrix4_Identity
    /\ (lastCall.op = "Matrix3::Inverted"
        /\ FLe(FAbs(Matrix3_Determinant(lastCall.arg)), F32(1, 1000000)))
         => lastCall.result = Matrix3_Identity

\* The matrix inverted has the determinant 1e-6 exactly, and it is not the
\* identity.
C12_Witness ==
    /\ lastCall.op = "Matrix4::Inverted"
    /\ Matrix4_Determinant(lastCall.arg) = F32(1, 1000000)
    /\ lastCall.arg # Matrix4_Identity
    /\ lastCall.result = Matrix4_Identity

\* The 3x3 determinant of m without row r and column c.
Minor(m, r, c) ==
    LET rows == <<{1, 2, 3}, {0, 2, 3}, {0, 1, 3}, {0, 1, 2}>>
        Nth(S, k) == CHOOSE x \in S : Cardinality({y \in S : y < x}) = k
        sub == [i \in 0..8 |->
                   m[4 * Nth(rows[r + 1], i \div 3) + Nth(rows[c + 1], i % 3)]]
    IN  FSub(FAdd(FMul(sub[0], FSub(FMul(sub[4], sub[8]), FMul(sub[5], sub[7]))),
                  FMul(sub[2], FSub(FMul(sub[3], sub[7]), FMul(sub[4], sub[6])))),
             FMul(sub[1], FSub(FMul(sub[3], sub[8]), FMul(sub[5], sub[6]))))

\* The adjugate: the transpose of the matrix of cofactors.
Adjugate(m) ==
    [n \in 0..15 |->
        LET i == n \div 4
            j == n % 4
        IN  IF (i + j) % 2 = 0 THEN Minor(m, j, i) ELSE FNeg(Minor(m, j, i))]

\* C13: for a Matrix4 M with |det(M)| > 1e-6, every element of
\* M * M.Inverted() is within 1e-4 of the Identity's, and Inverted() is the
\* adjugate of M divided by the determinant.
C13_InverseIsInverse ==
    (lastCall.op = "Matrix4::Inverted"
     /\ FGt(FAbs(Matrix4_Determinant(lastCall.arg)), F32(1, 1000000)))
      => /\ \A i \in 0..15 :
              FLe(FAbs(FSub(M4Mul(lastCall.arg, lastCall.result)[i],
                            Matrix4_Identity[i])),
                  F32(1, 10000))
         /\ \A i \in 0..15 :
              lastCall.result[i] =
                  FDiv(Adjugate(lastCall.arg)[i],
                       Matrix4_Determinant(lastCall.arg))

\* The matrix of small integers, with no zero pattern to help, was inverted.
C13_Witness ==
    /\ lastCall.op = "Matrix4::Inverted"
    /\ lastCall.arg = Matrix4_Dense
    /\ lastCall.result # Matrix4_Identity
    /\ M4Mul(lastCall.arg, lastCall.result) = Matrix4_Identity


(***************************************************************************)
(* Points through a matrix (Math/Matrix4.h, Math/Vector4.h)                *)
(***************************************************************************)
Vector4(x, y, z, w) == [x |-> x, y |-> y, z |-> z, w |-> w]

\* Matrix4::operator*(const Vector4&)
M4MulVec(m, vec) ==
    Vector4(
        FAdd(FAdd(FAdd(FMul(m[0], vec.x), FMul(m[1], vec.y)), FMul(m[2], vec.z)),
             FMul(m[3], vec.w)),
        FAdd(FAdd(FAdd(FMul(m[4], vec.x), FMul(m[5], vec.y)), FMul(m[6], vec.z)),
             FMul(m[7], vec.w)),
        FAdd(FAdd(FAdd(FMul(m[8], vec.x), FMul(m[9], vec.y)), FMul(m[10], vec.z)),
             FMul(m[11], vec.w)),
        FAdd(FAdd(FAdd(FMul(m[12], vec.x), FMul(m[13], vec.y)), FMul(m[14], vec.z)),
             FMul(m[15], vec.w)))

Homogenized(v) ==
    IF NearZero(v.w) THEN Vector3(v.x, v.y, v.z)
    ELSE LET invW == FDiv(F(1), v.w)
         IN  Vector3(FMul(v.x, invW), FMul(v.y, invW), FMul(v.z, invW))

TransformPoint(m, point) ==
    Homogenized(M4MulVec(m, Vector4(point.x, point.y, point.z, F(1))))

(***************************************************************************)
(* Properties of Camera::LookAt                                            *)
(***************************************************************************)
\* C14: after Camera::LookAt(target, up) with target different from the
\* camera's position and up not parallel to the direction of the target,
\* GetForward() is the normalized direction from the position to the target,
\* and the view matrix maps the target onto the negative Z axis of view space.
C14_LooksAtTarget ==
    [][\A a \in LookAtInputs :
        LET target == V3Add(m_Camera.m_Position, a[1])
            up == a[2]
            direction == V3Sub(target, m_Camera.m_Position)
        IN  (/\ lastCall'.op = "LookAt"
             /\ target # m_Camera.m_Position
             /\ Cross(up, direction) # Vector3_Zero
             /\ LookAt(target, up))
            => /\ Camera_GetForward(m_Camera') = V3Normalized(direction)
               /\ LET p == TransformPoint(m_Camera'.m_ViewMatrix, target)
                  IN  p.x = F(0) /\ p.y = F(0) /\ FLt(p.z, F(0))]_vars


(***************************************************************************)
(* Quaternion <-> matrix round trip (Math/Quaternion.h)                    *)
(***************************************************************************)
FromAxisAngle(axis, angle) ==
    LET halfAngle == FMul(angle, F32(1, 2))
        s == Sin(halfAngle)
        n == V3Normalized(axis)
    IN  Quaternion(FMul(n.x, s), FMul(n.y, s), FMul(n.z, s), Cos(halfAngle))

\* Math::Approximately
Approximately(a, b) == FLe(FAbs(FSub(a, b)), EPSILON)

\* Quaternion::operator==
QEquals(a, b) ==
    /\ Approximately(a.x, b.x)
    /\ Approximately(a.y, b.y)
    /\ Approximately(a.z, b.z)
    /\ Approximately(a.w, b.w)

\* Quaternion::operator*(f32)
QScale(q, scalar) ==
    Quaternion(FMul(q.x, scalar), FMul(q.y, scalar), FMul(q.z, scalar),
               FMul(q.w, scalar))

AxisInputs ==
    {V3(1, 0, 0), V3(0, 1, 0), V3(0, 0, 2), V3(1, 2, 2), V3(6, 2, 3),
     V3(2, 6, 3), V3(0, 0, 0)}

AngleInputs ==
    {F(0), PI, FNeg(PI), FMul(F(2), PI), FMul(F(2), Angle345),
     FMul(F(2), Angle51213), FMul(F(-2), Angle51213)}

\* q = FromAxisAngle(axis, angle); FromRotationMatrix(q.ToMatrix())
RoundTrip(axis, angle) ==
    LET q == FromAxisAngle(axis, angle)
    IN  MathStep("Quaternion::FromRotationMatrix", q,
                      FromRotationMatrix(QToMatrix(q)))

\* The branch of FromRotationMatrix taken for the matrix of q.
Branch(q) ==
    LET m == QToMatrix(q)
    IN  IF FGt(FAdd(FAdd(m[0], m[5]), m[10]), F(0)) THEN "w"
        ELSE IF FGt(m[0], m[5]) /\ FGt(m[0], m[10]) THEN "x"
        ELSE IF FGt(m[5], m[10]) THEN "y"
        ELSE "z"

\* C15: for a unit quaternion q made by FromAxisAngle,
\* FromRotationMatrix(q.ToMatrix()) is q or -q, in each of the four branches
\* of FromRotationMatrix.
C15_RoundTrip ==
    (lastCall.op = "Quaternion::FromRotationMatrix"
     /\ Approximately(QLengthSquared(lastCall.arg), F(1)))
      => \/ QEquals(lastCall.result, lastCall.arg)
         \/ QEquals(lastCall.result, QScale(lastCall.arg, F(-1)))

\* A round trip through the y branch that came back as -q.
C15_Witness ==
    /\ lastCall.op = "Quaternion::FromRotationMatrix"
    /\ Approximately(QLengthSquared(lastCall.arg), F(1))
    /\ Branch(lastCall.arg) = "y"
    /\ lastCall.result # lastCall.arg
    /\ lastCall.arg.x # F(0)

(***************************************************************************)
(* Quaternion interpolation (Math/Quaternion.h)                            *)
(***************************************************************************)
\* Math::Clamp
Clamp(value, min, max) ==
    IF FLt(value, min) THEN min ELSE IF FGt(value, max) THEN max ELSE value

\* std::acos, tabulated at the cosines 0, 4/5 and 5/13.
ACos(value) ==
    CASE value = F(0) -> FDiv(PI, F(2))
      [] value = F32(4, 5) -> Angle345
      [] value = F32(5, 13) -> Angle51213

\* Quaternion::operator+
QAdd(a, b) ==
    Quaternion(FAdd(a.x, b.x), FAdd(a.y, b.y), FAdd(a.z, b.z), FAdd(a.w, b.w))

\* Quaternion::Dot
QDot(a, b) ==
    FAdd(FAdd(FAdd(FMul(a.x, b.x), FMul(a.y, b.y)), FMul(a.z, b.z)),
         FMul(a.w, b.w))

\* Quaternion::Lerp
Quaternion_Lerp(a, b, t0) ==
    LET t == Clamp(t0, F(0), F(1))
    IN  QNormalized(QAdd(QScale(a, FSub(F(1), t)), QScale(b, t)))

\* Quaternion::Slerp
Slerp(a, b, t0) ==
    LET t == Clamp(t0, F(0), F(1))
        dot == QDot(a, b)
        b2 == IF FLt(dot, F(0)) THEN QScale(b, F(-1)) ELSE b
        cosHalfTheta == IF FLt(dot, F(0)) THEN FNeg(dot) ELSE dot
    IN  IF FGt(cosHalfTheta, F32(9999, 10000)) THEN Quaternion_Lerp(a, b2, t)
        ELSE LET halfTheta == ACos(cosHalfTheta)
                 sinHalfTheta ==
                     Sqrt(FSub(F(1), FMul(cosHalfTheta, cosHalfTheta)))
             IN  IF NearZero(sinHalfTheta) THEN Quaternion_Lerp(a, b2, t)
                 ELSE LET ratioA == FDiv(Sin(FMul(FSub(F(1), t), halfTheta)),
                                         sinHalfTheta)
                          ratioB == FDiv(Sin(FMul(t, halfTheta)), sinHalfTheta)
                      IN  QNormalized(QAdd(QScale(a, ratioA),
                                           QScale(b2, ratioB)))

\* Unit quaternions whose scalar products with SlerpFrom have tabulated
\* arc cosines.
SlerpFrom == {Q(0, 0, 0, 1), Q(0, 0, 0, -1), Q(1, 0, 0, 0)}
SlerpTo ==
    SlerpFrom
    \cup {Q(0, 1, 0, 0),
          Quaternion(F(0), F(0), F32(3, 5), F32(4, 5)),
          Quaternion(F(0), F(0), F32(3, 5), F32(-4, 5)),
          Quaternion(F(0), F32(12, 13), F(0), F32(5, 13)),
          Quaternion(F(0), F32(-12, 13), F(0), F32(-5, 13))}

\* t: the endpoints, and values Clamp brings back to them.
SlerpT == {F(0), F(1), F(-1), F(2)}

SlerpCall(a, b, t) ==
    MathStep("Quaternion::Slerp", <<a, b, t>>, Slerp(a, b, t))

\* C16: for unit quaternions a and b, Slerp(a, b, 0) == a and
\* Slerp(a, b, 1) == b under Quaternion::operator==.
C16_SlerpEndpoints ==
    (lastCall.op = "Quaternion::Slerp"
     /\ Approximately(QLengthSquared(lastCall.arg[1]), F(1))
     /\ Approximately(QLengthSquared(lastCall.arg[2]), F(1)))
      => /\ lastCall.arg[3] = F(0) => QEquals(lastCall.result, lastCall.arg[1])
         /\ lastCall.arg[3] = F(1) => QEquals(lastCall.result, lastCall.arg[2])

(***************************************************************************)
(* Normalization (Math/Vector2.h, Math/Vector3.h, Math/Vector4.h)          *)
(***************************************************************************)
Vector2(x, y) == [x |-> x, y |-> y]

Vector2_Length(v) == Hypot(<<v.x, v.y>>)

\* Vector2::Normalize, as the value of *this after the call
Vector2_Normalize(v) ==
    LET len == Vector2_Length(v)
    IN  IF NearZero(len) THEN Vector2(F(0), F(0))
        ELSE Vector2(FDiv(v.x, len), FDiv(v.y, len))

\* Vector2::Normalized
Vector2_Normalized(v) ==
    LET len == Vector2_Length(v)
    IN  IF NearZero(len) THEN Vector2(F(0), F(0))
        ELSE Vector2(FDiv(v.x, len), FDiv(v.y, len))

Vector4_Length(v) == Hypot(<<v.x, v.y, v.z, v.w>>)

\* Vector4::Normalize / Normalized
Vector4_Normalized(v) ==
    LET len == Vector4_Length(v)
    IN  IF FGt(len, EPSILON)
        THEN LET invLen == FDiv(F(1), len)
             IN  Vector4(FMul(v.x, invLen), FMul(v.y, invLen),
                         FMul(v.z, invLen), FMul(v.w, invLen))
        ELSE v

\* Pairs of components with a rational length: one component of 0, half of
\* EPSILON, EPSILON, twice EPSILON or 2 (of either sign) beside a 0, and the
\* pairs (3, 4) and (3, 4) * 1e-6 / 5, whose length is EPSILON.
Components ==
    {F(0), F32(1, 2000000), F32(-1, 2000000), F32(1, 1000000),
     F32(-1, 1000000), F32(1, 500000), F(2), F(-2)}

ComponentPairs ==
    {<<c, F(0)>> : c \in Components} \cup {<<F(0), c>> : c \in Components}
    \cup {<<F(3), F(4)>>, <<F32(3, 5000000), F32(4, 5000000)>>}

Vector2Inputs == {Vector2(p[1], p[2]) : p \in ComponentPairs}
Vector3Inputs == {Vector3(p[1], F(0), p[2]) : p \in ComponentPairs}
Vector4Inputs == {Vector4(p[1], F(0), F(0), p[2]) : p \in ComponentPairs}

Vector2Normalize(v) == MathStep("Vector2::Normalize", v, Vector2_Normalize(v))
Vector2Normalized(v) == MathStep("Vector2::Normalized", v, Vector2_Normalized(v))
Vector3Normalized(v) == MathStep("Vector3::Normalized", v, V3Normalized(v))
Vector4Normalized(v) == MathStep("Vector4::Normalized", v, Vector4_Normalized(v))

\* C17: Normalize()/Normalized() of a Vector2, Vector3 or Vector4 whose
\* length is <= 1e-6 yields the zero vector, and Vector3::Zero.Normalized()
\* is Vector3::Zero.
C17_NearZeroNormalize ==
    /\ (lastCall.op \in {"Vector2::Normalize", "Vector2::Normalized"}
        /\ FLe(Vector2_Length(lastCall.arg), F32(1, 1000000)))
         => lastCall.result = Vector2(F(0), F(0))
    /\ (lastCall.op = "Vector3::Normalized"
        /\ FLe(V3Length(lastCall.arg), F32(1, 1000000)))
         => lastCall.result = Vector3_Zero
    /\ (lastCall.op = "Vector4::Normalized"
        /\ FLe(Vector4_Length(lastCall.arg), F32(1, 1000000)))
         => lastCall.result = Vector4(F(0), F(0), F(0), F(0))

(***************************************************************************)
(* ResourceManager (Graphics/ResourceManager.cpp): shaders                 *)
(***************************************************************************)
ShaderNames == {"basic", "lit"}
MaxShaders == 3

LoggedInfo == "INFO"

Registered(r, name) == name \in DOMAIN r.s_Shaders

\* s_Shaders[name] = shader
Register(r, name, shader) ==
    [n \in DOMAIN r.s_Shaders \cup {name} |->
        IF n = name THEN shader ELSE r.s_Shaders[n]]

\* A faulty LoadShader that creates and registers without looking first.
ResourceManager_LoadShader_NoLookup(r, name, created) ==
    IF created
    THEN <<[s_Shaders |-> Register(r, name, Ref(r.created + 1)),
            created |-> r.created + 1],
           Ref(r.created + 1), LoggedInfo>>
    ELSE <<r, Null, LoggedError>>

\* ResourceManager::LoadShader and LoadShaderFromSource: <<the manager after
\* the call, the shader returned, the level logged>>. created tells whether
\* Shader::CreateFromFiles / Shader::Create returns a shader.
ResourceManager_LoadShader(r, name, created) ==
    IF Registered(r, name) THEN <<r, r.s_Shaders[name], LoggedWarn>>
    ELSE IF created
    THEN <<[s_Shaders |-> Register(r, name, Ref(r.created + 1)),
            created |-> r.created + 1],
           Ref(r.created + 1), LoggedInfo>>
    ELSE <<r, Null, LoggedError>>

ResourceManager_GetShader(r, name) ==
    IF Registered(r, name) THEN <<r.s_Shaders[name], LoggedNothing>>
    ELSE <<Null, LoggedWarn>>

ResourceManager_UnloadShader(r, name) ==
    IF Registered(r, name)
    THEN <<[r EXCEPT !.s_Shaders =
                [n \in DOMAIN r.s_Shaders \ {name} |-> r.s_Shaders[n]]],
           LoggedInfo>>
    ELSE <<r, LoggedWarn>>

ResourceStep(op, name, result, logged, r) ==
    /\ resources' = r
    /\ lastCall' = [result |-> result, op |-> op, name |-> name,
                    logged |-> logged]
    /\ calls' = <<>>
    /\ UNCHANGED <<m_Objects, m_ObjectIndex, m_Camera, s_SceneData, added,
                   engineVars, timer, logging, events>>

\* filesOpen: whether both shader files can be opened (Shader.cpp:134).
LoadShader(name, filesOpen) ==
    /\ Registered(resources, name) \/ resources.created < MaxShaders
    /\ LET r == ResourceManager_LoadShader(resources, name, filesOpen)
       IN  ResourceStep("LoadShader", name, r[2], r[3], r[1])

\* Shader::Create always returns a shader (Shader.cpp:126-128).
LoadShaderFromSource(name) ==
    /\ Registered(resources, name) \/ resources.created < MaxShaders
    /\ LET r == ResourceManager_LoadShader(resources, name, TRUE)
       IN  ResourceStep("LoadShaderFromSource", name, r[2], r[3], r[1])

GetShader(name) ==
    LET r == ResourceManager_GetShader(resources, name)
    IN  ResourceStep("GetShader", name, r[1], r[2], resources)

UnloadShader(name) ==
    LET r == ResourceManager_UnloadShader(resources, name)
    IN  ResourceStep("UnloadShader", name, Null, r[2], r[1])

ResourceNext ==
    \/ \E name \in ShaderNames, filesOpen \in BOOLEAN : LoadShader(name, filesOpen)
    \/ \E name \in ShaderNames : LoadShaderFromSource(name)
    \/ \E name \in ShaderNames : GetShader(name)
    \/ \E name \in ShaderNames : UnloadShader(name)

SpecResources == Init /\ [][ResourceNext]_vars

\* C18: a load call for a name that is registered returns the shader
\* registered under that name and creates and registers nothing; the shader
\* registered under a name stays the same until the name is unloaded, and
\* GetShader of a registered name returns it.
C18_LoadedOnce ==
    [][\A name \in ShaderNames :
        /\ (/\ lastCall'.op \in {"LoadShader", "LoadShaderFromSource"}
            /\ lastCall'.name = name
            /\ Registered(resources, name))
            => /\ lastCall'.result = resources.s_Shaders[name]
               /\ resources' = resources
        /\ (Registered(resources, name) /\ Registered(resources', name))
            => resources'.s_Shaders[name] = resources.s_Shaders[name]
        /\ (lastCall'.op = "GetShader" /\ lastCall'.name = name
            /\ Registered(resources, name))
            => lastCall'.result = resources.s_Shaders[name]]_vars

\* A load call has just found its name registered, with a shader that is not
\* the latest one created.
C18_Witness ==
    /\ lastCall.op \in {"LoadShader", "LoadShaderFromSource"}
    /\ lastCall.logged = LoggedWarn
    /\ Registered(resources, lastCall.name)
    /\ lastCall.result = resources.s_Shaders[lastCall.name]
    /\ lastCall.result # Ref(resources.created)

(***************************************************************************)
(* Time::Timer (Core/Time.cpp).  A duration is a number of clock ticks;    *)
(* the conversion to seconds is increasing and maps 0 to 0.                *)
(***************************************************************************)
MaxClock == 5

Timer_Reset(t) == [t EXCEPT !.m_StartTime_ = t.now, !.m_LastFrameTime_ = t.now]

Timer_Elapsed(t) == t.now - t.m_StartTime_

\* <<the timer after the call, the duration returned>>
Timer_Tick(t) ==
    <<[t EXCEPT !.m_LastFrameTime_ = t.now, !.previousTick = t.now],
      t.now - t.m_LastFrameTime_>>

TimerStep(op, result, t) ==
    /\ timer' = t
    /\ lastCall' = [result |-> result, op |-> op]
    /\ calls' = <<>>
    /\ UNCHANGED <<m_Objects, m_ObjectIndex, m_Camera, s_SceneData, added,
                   engineVars, resources, logging, events>>

\* Clock::now() moves on between two calls.
ClockAdvance ==
    /\ timer.now < MaxClock
    /\ TimerStep("Clock", Null, [timer EXCEPT !.now = timer.now + 1])

Reset == TimerStep("Reset", Null, Timer_Reset(timer))

Elapsed == TimerStep("Elapsed", Ref(Timer_Elapsed(timer)), timer)

Tick == TimerStep("Tick", Ref(Timer_Tick(timer)[2]), Timer_Tick(timer)[1])

TimerNext == ClockAdvance \/ Reset \/ Elapsed \/ Tick

SpecTimer == Init /\ [][TimerNext]_vars

\* C19: Reset leaves the last-frame timestamp alone, and a Tick returns the
\* time since the previous Tick (since construction if there was none),
\* whether or not a Reset came in between.
C19_ResetKeepsLastFrame ==
    [][/\ lastCall'.op = "Reset"
            => timer'.m_LastFrameTime_ = timer.m_LastFrameTime_
       /\ lastCall'.op = "Tick"
            => lastCall'.result = Ref(timer.now - timer.previousTick)]_vars

(***************************************************************************)
(* File logging (Core/Log.h): EnableFileLogging, DisableFileLogging        *)
(***************************************************************************)
MaxFiles == 6

\* What the construction of the std::ofstream does: the file is open, the
\* file is not open, or CreateScope throws (std::bad_alloc).
OpenOutcomes == {"open", "closed", "throws"}

\* Scope<std::ofstream>::reset() and the assignment of a new Scope: the file
\* owned so far is destroyed.
Destroy(owned, destroyed) ==
    IF owned = Null THEN destroyed ELSE destroyed \cup {owned[1]}

\* Log::EnableFileLogging: <<the statics and streams after the call, the
\* value returned>>
Log_EnableFileLogging(l, outcome) ==
    LET k == l.files + 1
    IN  CASE outcome = "throws" ->
               <<[l EXCEPT !.s_LogFile = Null,
                           !.destroyed = Destroy(l.s_LogFile, l.destroyed)],
                 FALSE>>
          [] outcome = "closed" ->
               <<[l EXCEPT !.s_LogFile = Null, !.files = k,
                           !.destroyed =
                               Destroy(l.s_LogFile, l.destroyed) \cup {k}],
                 FALSE>>
          [] outcome = "open" ->
               <<[l EXCEPT !.s_LogFile = Ref(k), !.files = k,
                           !.destroyed = Destroy(l.s_LogFile, l.destroyed),
                           !.s_OldCoutBuf = l.cout,
                           !.s_OldCerrBuf = l.cerr,
                           !.s_OldClogBuf = l.clog,
                           !.cout = FileBuf(k),
                           !.cerr = FileBuf(k),
                           !.clog = FileBuf(k)],
                 TRUE>>

\* Log::DisableFileLogging
Log_DisableFileLogging(l) ==
    IF l.s_LogFile = Null THEN l
    ELSE [l EXCEPT
            !.cout = IF l.s_OldCoutBuf # Null THEN l.s_OldCoutBuf ELSE l.cout,
            !.cerr = IF l.s_OldCerrBuf # Null THEN l.s_OldCerrBuf ELSE l.cerr,
            !.clog = IF l.s_OldClogBuf # Null THEN l.s_OldClogBuf ELSE l.clog,
            !.s_LogFile = Null,
            !.destroyed = Destroy(l.s_LogFile, l.destroyed)]

LogStep(op, result, l) ==
    /\ logging' = l
    /\ lastCall' = [result |-> result, op |-> op]
    /\ calls' = <<>>
    /\ UNCHANGED <<m_Objects, m_ObjectIndex, m_Camera, s_SceneData, added,
                   engineVars, resources, timer, events>>

EnableFileLogging(outcome) ==
    /\ logging.files < MaxFiles
    /\ LET r == Log_EnableFileLogging(logging, outcome)
       IN  LogStep("EnableFileLogging", r[2], r[1])

DisableFileLogging ==
    LogStep("DisableFileLogging", FALSE, Log_DisableFileLogging(logging))

LogNext ==
    \/ \E outcome \in OpenOutcomes : EnableFileLogging(outcome)
    \/ DisableFileLogging

SpecLog == Init /\ [][LogNext]_vars

\* The buffer a stream uses belongs to a file that has been destroyed.
Dangling(buf) == buf[1] = "file" /\ buf[2] \in logging.destroyed

\* C20: after a DisableFileLogging, whatever calls came before it, std::cout,
\* std::cerr and std::clog use the buffers they had before the first
\* EnableFileLogging, and none of them uses the buffer of a destroyed file.
C20_DisableRestoresConsole ==
    lastCall.op = "DisableFileLogging"
        => /\ logging.cout = StdoutBuf
           /\ logging.cerr = StderrBuf
           /\ logging.clog = StdlogBuf
           /\ ~Dangling(logging.cout)
           /\ ~Dangling(logging.cerr)
           /\ ~Dangling(logging.clog)

(***************************************************************************)
(* EventDispatcher (Core/Event.h)                                          *)
(***************************************************************************)
\* EventDispatcher<T>::Dispatch(func) on an event; func is what the handler
\* returns if it is invoked.  The event after the call, whether the handler
\* was invoked, and the value returned.
EventDispatcher_Dispatch(event, func) ==
    IF ~event.Handled_
    THEN [result |-> TRUE, event |-> [event EXCEPT !.Handled_ = func],
          invoked |-> TRUE]
    ELSE [result |-> FALSE, event |-> event, invoked |-> FALSE]

Dispatch(e, func) ==
    LET r == EventDispatcher_Dispatch(events[e], func)
    IN  /\ events' = [events EXCEPT ![e] = r.event]
        /\ lastCall' = [result |-> r.result, op |-> "Dispatch", event |-> e,
                        func |-> func, invoked |-> r.invoked]
        /\ calls' = <<>>
        /\ UNCHANGED <<m_Objects, m_ObjectIndex, m_Camera, s_SceneData, added,
                       engineVars, resources, timer, logging>>

EventNext == \E e \in Events, func \in BOOLEAN : Dispatch(e, func)

SpecEvent == Init /\ [][EventNext]_vars

\* C21: Dispatch returns true exactly when it invoked the handler and the
\* handler marked the event as handled; it returns false when the event was
\* already handled and when the invoked handler returned false.
C21_DispatchResult ==
    lastCall.op = "Dispatch"
        => (lastCall.result
                <=> (lastCall.invoked /\ events[lastCall.event].Handled_))

(***************************************************************************)
(* Math::WarpAngle (Math/MathUtils.h)                                      *)
(***************************************************************************)
TWO_PI == FMul(F(2), PI)

\* std::fmod(x, y): x - n * y with n the quotient x / y rounded towards zero.
Fmod(x, y) ==
    LET q == FDiv(x, y)
        n == IF q[1] >= 0 THEN q[1] \div q[2] ELSE -((-q[1]) \div q[2])
    IN  FSub(x, FMul(F(n), y))

WarpAngle(angle) ==
    LET a1 == Fmod(angle, TWO_PI)
        a2 == IF FLt(a1, PI) THEN FSub(a1, TWO_PI) ELSE a1
    IN  IF FGt(a2, PI) THEN FAdd(a2, TWO_PI) ELSE a2

WarpAngleInputs ==
    {F(0), F(1), F(-1), F(4), F(-4), F(7), F(-7), F(10), PI, FNeg(PI),
     FDiv(PI, F(2))}

WarpAngleCall(angle) == MathStep("WarpAngle", angle, WarpAngle(angle))

\* C22: WarpAngle(angle) lies in [-PI, PI] and differs from angle by an
\* integer multiple of 2 PI.
C22_WarpAngleRange ==
    lastCall.op = "WarpAngle"
        => /\ FLe(FNeg(PI), lastCall.result)
           /\ FLe(lastCall.result, PI)
           /\ FDiv(FSub(lastCall.result, lastCall.arg), TWO_PI)[2] = 1

(***************************************************************************)
(* Frame of RemoveObject                                                   *)
(***************************************************************************)
\* C23: RemoveObject(name) of a present object removes exactly that object:
\* the objects before it stay where they are, the objects behind it move up
\* by one place, unchanged and in the same order; the recorded index of each
\* object behind it decreases by one, the others keep theirs, and the name
\* removed has no index any more.
C23_RemovesExactlyThat ==
    [][(lastCall'.op = "RemoveObject" /\ lastCall'.name \in DOMAIN m_ObjectIndex)
        => LET i == m_ObjectIndex[lastCall'.name] + 1
           IN  /\ Len(m_Objects') = Len(m_Objects) - 1
               /\ \A k \in 1..Len(m_Objects) :
                     /\ k < i => m_Objects'[k] = m_Objects[k]
                     /\ k > i => m_Objects'[k - 1] = m_Objects[k]
               /\ DOMAIN m_ObjectIndex' = DOMAIN m_ObjectIndex \ {lastCall'.name}
               /\ \A n \in DOMAIN m_ObjectIndex' :
                     m_ObjectIndex'[n] =
                         IF m_ObjectIndex[n] >= i THEN m_ObjectIndex[n] - 1
                         ELSE m_ObjectIndex[n]
               /\ \A n \in DOMAIN m_ObjectIndex' :
                     m_Objects'[Deref(Scene_FindObject(m_ObjectIndex', n)) + 1]
                         = m_Objects[m_ObjectIndex[n] + 1]]_vars

\* "B" and "C" were added in this order, "B" was removed, and the two objects
\* differ in mesh and transform: "C" is now the only object, at index 0.
C23_Witness ==
    /\ lastCall.op = "RemoveObject"
    /\ lastCall.name = "B"
    /\ lastCall.logged = LoggedNothing
    /\ Len(m_Objects) = 1
    /\ m_Objects[1].name = "C"
    /\ m_Objects[1].mesh = MeshPlane
    /\ Scene_FindObject(m_ObjectIndex, "C") = Ref(0)

(***************************************************************************)
(* Order of the events of a Render pass                                    *)
(***************************************************************************)
IsUpload(call) == call.op = "SetMatrix4" /\ call.name = "u_ViewProjection"

\* C24: in a Render call with a non-null shader BeginScene with the scene's
\* camera comes first and once, EndScene last and once, and between them
\* there is exactly one Draw per object with a mesh, in list order, with the
\* object's transform.ToMatrix(); every upload of the view-projection matrix
\* in between is the camera's.
C24_RenderOrder ==
    (lastCall.op = "Render" /\ lastCall.shader # Null)
        => /\ calls[1].op = "BeginScene"
           /\ CountOf(calls, "BeginScene") = 1
           /\ calls[Len(calls)].op = "EndScene"
           /\ CountOf(calls, "EndScene") = 1
           /\ s_SceneData.viewProjectionMatrix
                  = Camera_GetViewProjectionMatrix(m_Camera)
           /\ \A i \in 1..Len(calls) :
                 IsUpload(calls[i])
                     => calls[i].value = Camera_GetViewProjectionMatrix(m_Camera)
           /\ LET draws == SelectSeq(calls, IsDraw)
                  meshes == SelectSeq(m_Objects, HasMesh)
              IN  /\ Len(draws) = Len(meshes)
                  /\ \A i \in 1..Len(draws) :
                        /\ draws[i].mesh = meshes[i].mesh
                        /\ draws[i].transform =
                               Transform_ToMatrix(meshes[i].transform)

\* A Render pass with a shader drew two meshes with different transforms,
\* skipping an object without a mesh that stands between them.
C24_Witness ==
    /\ lastCall.op = "Render"
    /\ lastCall.shader # Null
    /\ Len(m_Objects) = 3
    /\ HasMesh(m_Objects[1])
    /\ ~HasMesh(m_Objects[2])
    /\ HasMesh(m_Objects[3])
    /\ m_Objects[1].transform # m_Objects[3].transform
    /\ CountOf(calls, "Draw") = 2
    /\ calls[1].op = "BeginScene"

(***************************************************************************)
(* Scene::Update (Graphics/Scene.cpp)                                      *)
(***************************************************************************)
\* The callback of the objects that have one, the example of Scene.h:
\* obj->transform.position.x += 1.0f * deltaTime.  The object after the call.
OnUpdate(object, deltaTime) ==
    [object EXCEPT !.transform.position.x = FAdd(@, FMul(F(1), deltaTime))]

\* The loop of Scene::Update over objects[from..]: <<the objects after it,
\* the callbacks invoked, in order>>.  object is the pointer handed to the
\* callback, &m_Objects[i] as Ref(i).
RECURSIVE UpdateObjects(_, _, _)
UpdateObjects(objects, from, deltaTime) ==
    IF from > Len(objects) THEN <<objects, <<>>>>
    ELSE IF objects[from].onUpdate # Null
    THEN LET rest == UpdateObjects(
                        [objects EXCEPT
                            ![from] = OnUpdate(objects[from], deltaTime)],
                        from + 1, deltaTime)
         IN  <<rest[1],
               <<[op |-> "onUpdate", object |-> Ref(from - 1),
                  deltaTime |-> deltaTime]>> \o rest[2]>>
    ELSE UpdateObjects(objects, from + 1, deltaTime)

\* A faulty Update that goes through the list from its end.
RECURSIVE UpdateObjects_Backwards(_, _, _)
UpdateObjects_Backwards(objects, from, deltaTime) ==
    IF from > Len(objects) THEN <<objects, <<>>>>
    ELSE LET rest == UpdateObjects_Backwards(objects, from + 1, deltaTime)
         IN  IF objects[from].onUpdate # Null
             THEN <<[rest[1] EXCEPT
                        ![from] = OnUpdate(objects[from], deltaTime)],
                    rest[2] \o <<[op |-> "onUpdate", object |-> Ref(from - 1),
                                  deltaTime |-> deltaTime]>>>>
             ELSE rest

Scene_Update_Backwards(objects, deltaTime) ==
    UpdateObjects_Backwards(objects, 1, deltaTime)

\* Scene::Update
Scene_Update(objects, deltaTime) == UpdateObjects(objects, 1, deltaTime)

DeltaTimes == {F(1), F(2)}

Update(deltaTime) ==
    /\ \A i \in 1..Len(m_Objects) :
          FLe(FAdd(m_Objects[i].transform.position.x, deltaTime), F(MaxCoord))
    /\ LET r == Scene_Update(m_Objects, deltaTime)
       IN  m_Objects' = r[1] /\ calls' = r[2]
    /\ lastCall' = [op |-> "Update", deltaTime |-> deltaTime]
    /\ UNCHANGED <<m_ObjectIndex, m_Camera, s_SceneData, added,
                   engine, input, hookCalls, utilVars>>

UpdateNext ==
    \/ \E object \in SceneObjects : AddObject(object)
    \/ \E name \in Names : RemoveObject(name)
    \/ \E deltaTime \in DeltaTimes : Update(deltaTime)

SpecUpdate == Init /\ [][UpdateNext]_vars

HasCallback(object) == object.onUpdate # Null

\* C25: Update(dt) invokes the callback of every object that has one exactly
\* once, in list order, with the pointer to that object and with dt, and
\* invokes nothing for an object without a callback; each callback acts on
\* its own object; the list keeps its length, its order and the objects
\* without a callback, and the name index is unchanged.
C25_UpdateCallbacks ==
    [][lastCall'.op = "Update"
        => /\ \A i \in 1..Len(m_Objects) :
                 Cardinality({k \in 1..Len(calls') : calls'[k].object = Ref(i - 1)})
                     = IF HasCallback(m_Objects[i]) THEN 1 ELSE 0
           /\ \A k \in 1..Len(calls') :
                 /\ calls'[k].op = "onUpdate"
                 /\ calls'[k].deltaTime = lastCall'.deltaTime
                 /\ Deref(calls'[k].object) \in 0..(Len(m_Objects) - 1)
                 /\ \A l \in 1..Len(calls') :
                       k < l => Deref(calls'[k].object) < Deref(calls'[l].object)
           /\ Len(m_Objects') = Len(m_Objects)
           /\ \A i \in 1..Len(m_Objects) :
                 m_Objects'[i] =
                     IF HasCallback(m_Objects[i])
                     THEN OnUpdate(m_Objects[i], lastCall'.deltaTime)
                     ELSE m_Objects[i]
           /\ m_ObjectIndex' = m_ObjectIndex]_vars

\* Update went over three objects, the first and the last with a callback,
\* the one between them without: two callbacks ran.
C25_Witness ==
    /\ lastCall.op = "Update"
    /\ Len(m_Objects) = 3
    /\ HasCallback(m_Objects[1])
    /\ ~HasCallback(m_Objects[2])
    /\ HasCallback(m_Objects[3])
    /\ Len(calls) = 2
    /\ calls[1].object = Ref(0)
    /\ calls[2].object = Ref(2)

(***************************************************************************)
(* Renderer::BeginScene, EndScene and Submit called directly               *)
(***************************************************************************)
\* A faulty EndScene that resets the stored matrix.
Renderer_EndScene_Clears(sd) == [viewProjectionMatrix |-> Matrix4_Identity]

\* Renderer::EndScene: *s_SceneData after the call (the body is empty)
Renderer_EndScene(sd) == sd

\* The cameras BeginScene is called with besides the scene's own.
OtherCameras == {Camera_Default}

BeginScene(camera) ==
    /\ s_SceneData' = Renderer_BeginScene(camera)
    /\ calls' = <<[op |-> "BeginScene"]>>
    /\ lastCall' = [op |-> "BeginScene",
                    viewProjection |-> Camera_GetViewProjectionMatrix(camera)]
    /\ UNCHANGED <<m_Objects, m_ObjectIndex, m_Camera, added,
                   engine, input, hookCalls, utilVars>>

EndScene ==
    /\ s_SceneData' = Renderer_EndScene(s_SceneData)
    /\ calls' = <<[op |-> "EndScene"]>>
    /\ lastCall' = [op |-> "EndScene"]
    /\ UNCHANGED <<m_Objects, m_ObjectIndex, m_Camera, added,
                   engine, input, hookCalls, utilVars>>

FrameNext ==
    \/ \E camera \in {m_Camera} \cup OtherCameras : BeginScene(camera)
    \/ EndScene
    \/ \E shader \in Shaders, vertexArray \in VertexArrays :
            Submit(shader, vertexArray, ModelMatrix)
    \/ \E offset \in OffsetInputs : Move(offset)
    \/ AddObject(SceneObject("A", MeshPlane, TransformAtX, Null))
    \/ \E shader \in Shaders : Render(shader)

SpecFrame == Init /\ [][FrameNext]_vars

\* C26: the stored matrix is the identity before any BeginScene; BeginScene
\* stores the view-projection matrix of the camera it is given, Render that of
\* the scene's camera; no other call, EndScene included, changes the stored
\* matrix; and a Submit that passes its null checks uploads as
\* u_ViewProjection, once, the matrix stored when it is called.
C26_SubmitUsesLastBegin ==
    /\ s_SceneData.viewProjectionMatrix = Matrix4_Identity
    /\ [][/\ lastCall'.op = "BeginScene"
               => s_SceneData'.viewProjectionMatrix = lastCall'.viewProjection
          /\ (lastCall'.op = "Render" /\ lastCall'.shader # Null)
               => /\ s_SceneData'.viewProjectionMatrix
                        = Camera_GetViewProjectionMatrix(m_Camera)
                  /\ \A i \in 1..Len(calls') :
                        IsUpload(calls'[i]) =>
                            calls'[i].value = s_SceneData'.viewProjectionMatrix
          /\ ~(lastCall'.op = "BeginScene"
               \/ (lastCall'.op = "Render" /\ lastCall'.shader # Null))
               => s_SceneData' = s_SceneData
          /\ (lastCall'.op = "Submit" /\ lastCall'.shader # Null
              /\ lastCall'.vertexArray # Null)
               => /\ Cardinality({i \in 1..Len(calls') : IsUpload(calls'[i])}) = 1
                  /\ IsUpload(calls'[1])
                  /\ calls'[1].value = s_SceneData.viewProjectionMatrix]_vars

\* A Submit uploaded the matrix of a BeginScene made with another camera than
\* the scene's, after an EndScene and after the scene's camera had moved.
C26_Witness ==
    /\ lastCall.op = "Submit"
    /\ Len(calls) > 0
    /\ calls[1].value = Camera_GetViewProjectionMatrix(Camera_Default)
    /\ calls[1].value # Camera_GetViewProjectionMatrix(m_Camera)
    /\ calls[1].value # Camera_GetViewProjectionMatrix(Scene_Camera)
    /\ m_Camera # Scene_Camera

(***************************************************************************)
(* Key edges over the frames of Engine::Run                                *)
(***************************************************************************)
\* The step is one pass of Run's loop body.
IsFrame == hookCalls'["OnUpdate"] = hookCalls["OnUpdate"] + 1

C28_SizeIsHalfHeight ==
    [][\A size \in SizeInputs, aspect \in AspectInputs, near \in NearInputs,
          far \in FarInputs :
            (/\ lastCall'.op = "SetOrthographic"
             /\ ~InvalidOrthographic(size, aspect, near, far)
             /\ SetOrthographic(size, aspect, near, far))
            => m_Camera'.m_ProjectionMatrix
                   = Orthographic(FNeg(FMul(size, aspect)), FMul(size, aspect),
                                  FNeg(size), size, near, far)]_vars

\* C28, as the code has it: size is the full height of the view volume.
\* After an accepted SetOrthographic(size, aspect, near, far) the projection
\* matrix is Matrix4::Orthographic(-size*aspect/2, size*aspect/2, -size/2,
\* size/2, near, far).
C28_SizeIsHeight ==
    [][\A size \in SizeInputs, aspect \in AspectInputs, near \in NearInputs,
          far \in FarInputs :
            (/\ lastCall'.op = "SetOrthographic"
             /\ ~InvalidOrthographic(size, aspect, near, far)
             /\ SetOrthographic(size, aspect, near, far))
            => m_Camera'.m_ProjectionMatrix
                   = Orthographic(FNeg(FDiv(FMul(size, aspect), F(2))),
                                  FDiv(FMul(size, aspect), F(2)),
                                  FNeg(FDiv(size, F(2))), FDiv(size, F(2)),
                                  near, far)]_vars

\* An accepted SetOrthographic(2, 1, 1, 3): the view volume is 2 high, from
\* -1 to 1, so the vertical scale of the projection is 1.
C28_Witness ==
    /\ lastCall.op = "SetOrthographic"
    /\ lastCall.logged = LoggedNothing
    /\ m_Camera.m_Type = Orthographic_
    /\ m_Camera.m_Size = F(2)
    /\ m_Camera.m_ProjectionMatrix[5] = F(1)
    /\ m_Camera.m_ProjectionMatrix[0] = F(1)

(***************************************************************************)
(* Engine cleanup: explicit Shutdown calls                                 *)
(***************************************************************************)
\* Engine::Shutdown called by the application: before Run, between two
\* passes of the loop, or after Run has returned.
Shutdown ==
    /\ engine.pc \in {"constructed", "loop", "returned"}
    /\ LET r == Engine_Shutdown(engine, hookCalls)
       IN  EngineStep(r[1], input, r[2])

ShutdownNext ==
    \/ \E windowOk \in BOOLEAN : Run_Initialize(windowOk)
    \/ \E keyState \in [Keys -> BOOLEAN], close \in BOOLEAN :
            Run_Frame(keyState, close)
    \/ Run_Exit
    \/ Shutdown
    \/ Engine_Destructor

SpecShutdown == Init /\ [][ShutdownNext]_vars

\* C29: whatever the Shutdown at the end of Run, explicit Shutdown calls and
\* the destructor do, OnShutdown runs at most once and only after a
\* successful Initialize, the window is destroyed at most once, and a
\* Shutdown call on an engine that is not running changes nothing.
C29_CleanupAtMostOnce ==
    /\ [](/\ hookCalls["OnShutdown"] <= 1
          /\ hookCalls["OnShutdown"] <= hookCalls["OnInitialize"]
          /\ hookCalls["glfwDestroyWindow"] <= 1)
    /\ [][(~engine.m_isRunning_ /\ Shutdown)
            => UNCHANGED <<engine, hookCalls>>]_vars

\* The engine ran, was shut down by an explicit call during the loop, Run
\* returned and the engine was destroyed: one OnShutdown, one window
\* destroyed.
C29_Witness ==
    /\ engine.pc = "destroyed"
    /\ hookCalls["OnInitialize"] = 1
    /\ hookCalls["OnUpdate"] = 0
    /\ hookCalls["OnShutdown"] = 1
    /\ hookCalls["glfwDestroyWindow"] = 1

(***************************************************************************)
(* The specification of the calls of pure functions                        *)
(***************************************************************************)
MathNext ==
    \/ \E m \in Matrix4Inputs : Matrix4Inverted(m)
    \/ \E m \in Matrix3Inputs : Matrix3Inverted(m)
    \/ \E axis \in AxisInputs, angle \in AngleInputs : RoundTrip(axis, angle)
    \/ \E a \in SlerpFrom, b \in SlerpTo, t \in SlerpT : SlerpCall(a, b, t)
    \/ \E v \in Vector2Inputs : Vector2Normalize(v)
    \/ \E v \in Vector2Inputs : Vector2Normalized(v)
    \/ \E v \in Vector3Inputs : Vector3Normalized(v)
    \/ \E v \in Vector4Inputs : Vector4Normalized(v)
    \/ \E angle \in WarpAngleInputs : WarpAngleCall(angle)

SpecMath == Init /\ [][MathNext]_vars

=============================================================================
